---- MODULE Spec2Model ----
(***************************************************************************)
(* Device pairing and content synchronisation engine of the display        *)
(* client.  This part of the development covers the content pipeline:      *)
(* hooks/useContentSubscription (the orchestrator), ContentService (the    *)
(* content repository client, the change notification listener and the     *)
(* cache) and the remote content store they talk to.                       *)
(*                                                                         *)
(* Time is in milliseconds.  Timers are urgent: time does not pass the     *)
(* deadline of an armed timer before the timer has fired.                  *)
(* localStorage is taken to be available (setItem/getItem do not throw).   *)
(***************************************************************************)
EXTENDS Integers, Sequences, FiniteSets, TLC

\* ------------------------------------------------------------------ bounds
StartTime == 4000000     \* Date.now() when the page is loaded
Horizon == 6000          \* the model follows the session for this many ms
MaxChannels == 2         \* realtime channels that can still act, at one time
MaxFetches == 2          \* getDeviceContent calls in flight at one time
MaxBurst == 2            \* change notifications in one burst
MaxNotify == 2           \* change notifications in one session
MaxErrors == 1           \* CHANNEL_ERROR reports in one session
MaxPairings == 3         \* changes of isPaired in one session
QuarterMs == 250         \* gap between two notifications of a burst
MaxCalls == 2            \* asynchronous device functions under way at one time
MaxPushes == 2           \* devices UPDATE events under way at one time
MaxTicks == 2            \* countdown seconds followed after a reset
MaxLost == 1             \* devices UPDATE events lost in one session

\* ------------------------------------------------------- program constants
DebounceMs == 500
ReconnectMs == 5000
CacheMaxAgeMs == 3600000

NoTimer == 0 - 1         \* a timer handle that is null / not armed
Null == << >>            \* localStorage.getItem of a missing key
Some(v) == <<v>>         \* localStorage.getItem of a stored key

\* ------------------------------------------------------------ content items
ItemX == [id |-> "X", content_type |-> "text", duration |-> 2]
ItemY == [id |-> "Y", content_type |-> "video", duration |-> 3]

\* playlists the remote store can hold for this device
RemotePlaylists == {<< >>, <<ItemX>>}

\* getDefaultContent returning no item at all
getDefaultContent_Empty == << >>

\* ContentService.getDefaultContent
getDefaultContent ==
    << [id |-> "default-welcome", content_type |-> "text", duration |-> 12],
       [id |-> "default-features", content_type |-> "text", duration |-> 10],
       [id |-> "default-pairing", content_type |-> "text", duration |-> 15] >>

\* --------------------------------------------------- string conversions
\* Number.prototype.toString for a non-negative integer: its decimal digits
RECURSIVE toString(_)
toString(n) == IF n < 10 THEN <<n>> ELSE Append(toString(n \div 10), n % 10)

\* parseInt of a string of decimal digits
RECURSIVE parseInt(_)
parseInt(s) ==
    IF Len(s) = 1 THEN s[1]
    ELSE 10 * parseInt(SubSeq(s, 1, Len(s) - 1)) + s[Len(s)]

\* JSON.stringify of a Content[]: each object becomes its list of members
JSONstringify(list) ==
    [i \in 1..Len(list) |->
        << <<"id", list[i].id>>,
           <<"content_type", list[i].content_type>>,
           <<"duration", list[i].duration>> >>]

\* JSON.parse of such a text: each member list becomes an object again
JSONparse(text) ==
    [i \in 1..Len(text) |->
        [id |-> text[i][1][2],
         content_type |-> text[i][2][2],
         duration |-> text[i][3][2]]]

VARIABLES
    now,            \* Date.now()
    remote,         \* the ordered active playlist the store holds for the device
    isPaired,       \* the isPaired argument of useContentSubscription
    effRan,         \* the effect has run for the current value of isPaired
    content,        \* useState content
    localStorage,   \* the two cache keys of window.localStorage
    channels,       \* realtime channels that can still act, in creation order
    fetches,        \* getDeviceContent calls in flight, in call order
    notified,       \* a notification was delivered since remote last changed
    lastNotify,     \* time the last change notification reached a handler
    burstLen,       \* notifications of the current burst
    count,          \* notifications, channel errors and pairing changes so far
    burstRefreshes, \* refreshes fired since the current burst began
    liveFetchRan,   \* a getDeviceContent call has completed in this session
    last            \* the last step taken

\* the device directory, the pairing screen and the device status hook
VARIABLES
    variant,        \* which useDeviceStatus is built in: "polling" or "realtime"
    devices,        \* the rows of the remote table devices
    webStorage,     \* device_id (localStorage), device_code (sessionStorage)
    hook,           \* useDeviceStatus: its state and whether it is mounted
    pairing,        \* DevicePairing: its state while it is on screen
    calls,          \* asynchronous functions of the two that are under way
    pushes,         \* UPDATE events on their way to pairing subscriptions
    ghost           \* what getDeviceId and generateDeviceCode have returned

\* the display scheduler
VARIABLES
    display         \* ContentDisplay: its props, state and timers

\* the content repository
VARIABLES
    store           \* the rows of the remote tables device_content and content

contentVars == << now, remote, isPaired, effRan, content, localStorage,
                  channels, fetches, notified, lastNotify, burstLen, count,
                  burstRefreshes, liveFetchRan, last >>

deviceVars == << variant, devices, webStorage, hook, pairing, calls, pushes,
                 ghost >>

vars == << contentVars, deviceVars, display, store >>

\* ------------------------------------------------------------------ cache
\* cacheContent writing the playlist without the cache_timestamp key
cacheContent_NoStamp(list, t) ==
    [cached_content |-> Some(JSONstringify(list)),
     cache_timestamp |-> Null]

\* ContentService.cacheContent: both keys are written, the time as a string
cacheContent(list, t) ==
    [cached_content |-> Some(JSONstringify(list)),
     cache_timestamp |-> Some(toString(t))]

\* localStorage.removeItem of both cache keys (subscription callback)
removeCache == [cached_content |-> Null, cache_timestamp |-> Null]

\* getCachedContent finding nothing
getCachedContent_Nothing(ls) == << >>

\* ContentService.getCachedContent
getCachedContent(ls) ==
    IF ls.cached_content # Null THEN JSONparse(ls.cached_content[1]) ELSE << >>

\* isCacheValid with the age of exactly one hour still valid
isCacheValid_Inclusive(ls, t) ==
    IF ls.cache_timestamp # Null
    THEN t - parseInt(ls.cache_timestamp[1]) <= CacheMaxAgeMs
    ELSE FALSE

\* ContentService.isCacheValid
isCacheValid(ls, t) ==
    IF ls.cache_timestamp # Null
    THEN t - parseInt(ls.cache_timestamp[1]) < CacheMaxAgeMs
    ELSE FALSE

\* ------------------------------------------------------------- helpers
Statuses == {"joining", "SUBSCRIBED", "CHANNEL_ERROR", "TIMED_OUT", "CLOSED"}

Chans == 1..Len(channels)

\* armed debounce timers and armed reconnect timers
ArmedDebounce == {c \in Chans : channels[c].debounceTimer # NoTimer}
ArmedReconnect == {c \in Chans : channels[c].reconnectTimer # NoTimer}

Deadlines == {channels[c].debounceTimer : c \in ArmedDebounce}
                 \cup {channels[c].reconnectTimer : c \in ArmedReconnect}

TimerDue == \E d \in Deadlines : d <= now

\* a channel that still receives change events or is about to
Live(ch) == ch.status \in {"joining", "SUBSCRIBED"}

\* a channel that can still act: it is live or one of its timers is armed
Active(ch) ==
    Live(ch) \/ ch.debounceTimer # NoTimer \/ ch.reconnectTimer # NoTimer

\* the list without the channels that can no longer act
Sweep(chs) == SelectSeq(chs, Active)

\* room for k more getDeviceContent calls in flight
FetchRoom(k) == Len(fetches) + k <= MaxFetches

\* the list s without its i-th element
Remove(s, i) == SubSeq(s, 1, i - 1) \o SubSeq(s, i + 1, Len(s))

\* the record of a step: for the completion of a request, which handler
\* ran and whether the query had succeeded
Step(op, ok) ==
    IF op \in {"LoadContentDone", "SubscriptionCallback"}
    THEN [op |-> op, ok |-> ok] ELSE [op |-> "other", ok |-> TRUE]

\* supabase.channel(...) with its two handlers, then channel.subscribe(...);
\* held: the effect keeps the returned subscription for its cleanup
NewChannel(held) == [status |-> "joining", debounceTimer |-> NoTimer,
                     reconnectTimer |-> NoTimer, held |-> held]

\* the request of a getDeviceContent call, on its way to the store
NewFetch(origin) ==
    [origin |-> origin, phase |-> "sent", data |-> << >>, ok |-> FALSE]

\* ------------------------------------------------- the device at rest
\* useDeviceStatus before the application is mounted
HookUnmounted ==
    [mounted |-> FALSE, isPaired |-> FALSE, device |-> Null,
     loading |-> TRUE, sub |-> Null]

\* useState(600) of countdown
CountdownStart == 600

\* DevicePairing when it is not on screen, and its useState defaults
PairingClosed ==
    [deviceCode |-> "", qrData |-> Null, countdown |-> CountdownStart,
     loading |-> FALSE, sub |-> Null]

\* ContentDisplay when it is not on screen, and its useState defaults.
\* content is the prop, timer the deadline of the timeout timerRef refers
\* to while it is armed, pending the 300 ms timeouts that are armed (no
\* ref holds them), media whether the <video> of the item on screen can
\* still report ended or error, since the time the timer effect last ran.
DisplayClosed ==
    [mounted |-> FALSE, content |-> << >>, currentIndex |-> 0,
     isTransitioning |-> FALSE, timer |-> NoTimer, pending |-> << >>,
     media |-> FALSE, since |-> NoTimer]

\* the content repository without a row
StoreEmpty == [device_content |-> {}, content |-> {}]

\* the page with both storages available and empty
StorageEmpty == [localOk |-> TRUE, sessionOk |-> TRUE,
                 device_id |-> Null, device_code |-> Null]

\* nothing of the device part has happened
DeviceIdle ==
    /\ variant = "realtime"
    /\ devices = {}
    /\ webStorage = StorageEmpty
    /\ hook = HookUnmounted
    /\ pairing = PairingClosed
    /\ calls = << >>
    /\ pushes = << >>
    /\ ghost = [ids |-> {}, gen |-> 0, lost |-> 0]

Init ==
    /\ DeviceIdle
    /\ display = DisplayClosed
    /\ store = StoreEmpty
    /\ now = StartTime
    /\ remote = <<ItemX>>
    /\ isPaired = FALSE
    /\ effRan = FALSE
    /\ content = << >>
    /\ localStorage \in
          {removeCache,
           cacheContent(<<ItemX, ItemY>>, StartTime - CacheMaxAgeMs + 1000)}
    /\ channels = << >>
    /\ fetches = << >>
    /\ notified = TRUE
    /\ lastNotify = NoTimer
    /\ burstLen = 0
    /\ count = [notify |-> 0, errors |-> 0, pairings |-> 0]
    /\ burstRefreshes = 0
    /\ liveFetchRan = FALSE
    /\ last = Step("other", TRUE)

\* ------------------------------------------------------------ the store
\* The owner changes the device's bindings or content items.
ServerChange(p) ==
    /\ p # remote
    /\ remote' = p
    /\ notified' = FALSE
    /\ last' = Step("other", TRUE)
    /\ UNCHANGED << now, isPaired, effRan, content, localStorage, channels,
                    fetches, lastNotify, burstLen, count, burstRefreshes, liveFetchRan >>
    /\ UNCHANGED << deviceVars, display, store >>

\* ----------------------------------------------- ContentService, requests
\* getDeviceContent, the query reaching the store: the rows of the device's
\* active bindings in display order, or a transport/query error.
FetchServed(i, ok) ==
    /\ i \in 1..Len(fetches)
    /\ fetches[i].phase = "sent"
    /\ fetches' = [fetches EXCEPT ![i] =
          [@ EXCEPT !.phase = "served", !.ok = ok,
                    !.data = IF ok THEN remote ELSE << >>]]
    /\ last' = Step("other", TRUE)
    /\ UNCHANGED << now, remote, isPaired, effRan, content,
                    localStorage, channels, notified, lastNotify, burstLen,
                    count, burstRefreshes, liveFetchRan >>
    /\ UNCHANGED << deviceVars, display, store >>

\* getDeviceContent rethrowing the error of a failed query
getDeviceContent_Rethrows(f) ==
    [threw |-> ~f.ok, value |-> IF f.ok THEN f.data ELSE << >>]

\* What getDeviceContent hands to its caller: the rows on success; on an
\* error the catch block returns [] and nothing is thrown.
getDeviceContent(f) ==
    [threw |-> FALSE, value |-> IF f.ok THEN f.data ELSE << >>]

\* ------------------------------- ContentService.subscribeToContentUpdates
\* fetchAndCallback: clearTimeout of the channel's timer, then a new timer
fetchAndCallback(ch) == [ch EXCEPT !.debounceTimer = now + DebounceMs]

\* The status handler passed to channel.subscribe, called with a status.
StatusHandler(ch, status) ==
    IF status = "CHANNEL_ERROR"
    THEN [ch EXCEPT !.status = status, !.reconnectTimer = now + ReconnectMs]
    ELSE [ch EXCEPT !.status = status]

\* subscription.unsubscribe(): the channel leaves, its handler sees CLOSED
unsubscribe(ch) == StatusHandler([ch EXCEPT !.held = FALSE], "CLOSED")

\* ------------------------------------------- useContentSubscription
\* loadContent up to its await: the request of getDeviceContent is sent
LoadContentStart == fetches' = Append(fetches, NewFetch("load"))

\* useDeviceStatus commits isPaired = b (at mount: the initial false; later
\* a change by the startup check, a poll, a push or onPaired) and the effect
\* of useContentSubscription runs for it, after the cleanup of the effect it
\* replaces.
Effect(b) ==
    /\ IF effRan THEN b # isPaired /\ count.pairings < MaxPairings
                 ELSE b = isPaired
    /\ isPaired' = b
    /\ effRan' = TRUE
    /\ count' = IF effRan THEN [count EXCEPT !.pairings = @ + 1] ELSE count
    /\ LET cleaned == Sweep([c \in Chans |->
                                IF channels[c].held
                                THEN unsubscribe(channels[c])
                                ELSE channels[c]])
       IN IF ~b
          THEN /\ content' = getDefaultContent
               /\ channels' = cleaned
               /\ UNCHANGED fetches
          ELSE /\ FetchRoom(1)
               /\ Len(cleaned) < MaxChannels
               /\ LoadContentStart
               /\ channels' = Append(cleaned, NewChannel(TRUE))
               /\ UNCHANGED content
    /\ last' = Step("other", TRUE)
    /\ UNCHANGED << now, remote, localStorage, notified, lastNotify, burstLen,
                    burstRefreshes, liveFetchRan >>
    /\ UNCHANGED << deviceVars, display, store >>

\* refreshContent / the Ctrl+R key handler: loadContent, whatever isPaired is
ManualRefresh ==
    /\ effRan
    /\ FetchRoom(1)
    /\ LoadContentStart
    /\ last' = Step("other", TRUE)
    /\ UNCHANGED << now, remote, isPaired, effRan, content,
                    localStorage, channels, notified, lastNotify, burstLen,
                    count, burstRefreshes, liveFetchRan >>
    /\ UNCHANGED << deviceVars, display, store >>

\* loadContent after its await
LoadContentDone(i) ==
    /\ i \in 1..Len(fetches)
    /\ fetches[i].origin = "load"
    /\ fetches[i].phase = "served"
    /\ fetches' = Remove(fetches, i)
    /\ LET r == getDeviceContent(fetches[i])
           cachedContent == getCachedContent(localStorage)
       IN /\ IF ~r.threw
             THEN IF Len(r.value) > 0
                  THEN /\ content' = r.value
                       /\ localStorage' = cacheContent(r.value, now)
                  ELSE /\ content' = getDefaultContent
                       /\ UNCHANGED localStorage
             ELSE IF Len(cachedContent) > 0 /\ isCacheValid(localStorage, now)
                  THEN /\ content' = cachedContent
                       /\ UNCHANGED localStorage
                  ELSE /\ content' = getDefaultContent
                       /\ UNCHANGED localStorage
          /\ last' = Step("LoadContentDone", fetches[i].ok)
    /\ liveFetchRan' = TRUE
    /\ UNCHANGED << now, notified, remote, isPaired, effRan, channels,
                    lastNotify, burstLen, count, burstRefreshes >>
    /\ UNCHANGED << deviceVars, display, store >>

\* The callback the effect passed to subscribeToContentUpdates, called by a
\* debounced refresh with the list getDeviceContent returned.
SubscriptionCallback(i) ==
    /\ i \in 1..Len(fetches)
    /\ fetches[i].origin = "sub"
    /\ fetches[i].phase = "served"
    /\ fetches' = Remove(fetches, i)
    /\ LET newContent == getDeviceContent(fetches[i]).value
       IN /\ IF Len(newContent) > 0
             THEN /\ content' = newContent
                  /\ localStorage' = cacheContent(newContent, now)
             ELSE /\ content' = getDefaultContent
                  /\ localStorage' = removeCache
          /\ last' = Step("SubscriptionCallback", fetches[i].ok)
    /\ liveFetchRan' = TRUE
    /\ UNCHANGED << now, notified, remote, isPaired, effRan, channels,
                    lastNotify, burstLen, count, burstRefreshes >>
    /\ UNCHANGED << deviceVars, display, store >>

\* ------------------------------------------------ the change listener
\* the previous notification arrived less than DebounceMs ago
InBurst == lastNotify # NoTimer /\ now - lastNotify < DebounceMs

\* A postgres_changes event on device_content (this device) or on content
\* (any row) reaches the handlers of every channel that is subscribed.
Notify(stream) ==
    /\ ~TimerDue
    /\ \E c \in Chans : channels[c].status = "SUBSCRIBED"
    /\ InBurst => burstLen < MaxBurst
    /\ count.notify < MaxNotify
    /\ count' = [count EXCEPT !.notify = @ + 1]
    /\ channels' = [c \in Chans |->
                      IF channels[c].status = "SUBSCRIBED"
                      THEN fetchAndCallback(channels[c])
                      ELSE channels[c]]
    /\ burstLen' = IF InBurst THEN burstLen + 1 ELSE 1
    /\ burstRefreshes' = IF InBurst THEN burstRefreshes ELSE 0
    /\ lastNotify' = now
    /\ notified' = TRUE
    /\ last' = Step("other", TRUE)
    /\ UNCHANGED << now, remote, isPaired, effRan, content,
                    localStorage, fetches, liveFetchRan >>
    /\ UNCHANGED << deviceVars, display, store >>

\* The debounce timer of channel c fires: getDeviceContent is called.
DebounceFire(c) ==
    /\ c \in ArmedDebounce
    /\ channels[c].debounceTimer <= now
    /\ FetchRoom(1)
    /\ channels' = Sweep([channels EXCEPT ![c].debounceTimer = NoTimer])
    /\ fetches' = Append(fetches, NewFetch("sub"))
    /\ burstRefreshes' = burstRefreshes + 1
    /\ last' = Step("other", TRUE)
    /\ UNCHANGED << now, remote, isPaired, effRan, content,
                    localStorage, notified, lastNotify, burstLen, count,
                    liveFetchRan >>
    /\ UNCHANGED << deviceVars, display, store >>

\* The transport reports a status for channel c.
ChannelStatus(c, status) ==
    /\ c \in Chans
    /\ \/ status \in {"SUBSCRIBED", "TIMED_OUT"} /\ channels[c].status = "joining"
       \/ /\ status = "CHANNEL_ERROR"
          /\ Live(channels[c])
          /\ count.errors < MaxErrors
    /\ channels' = Sweep([channels EXCEPT ![c] = StatusHandler(@, status)])
    /\ count' = IF status = "CHANNEL_ERROR"
                THEN [count EXCEPT !.errors = @ + 1] ELSE count
    /\ last' = Step("other", TRUE)
    /\ UNCHANGED << now, remote, isPaired, effRan, content,
                    localStorage, fetches, notified, lastNotify, burstLen,
                    burstRefreshes, liveFetchRan >>
    /\ UNCHANGED << deviceVars, display, store >>

\* The reconnect timer armed by channel c fires: subscribeToContentUpdates
\* is called again with the same callback; its result is dropped.
ReconnectFire(c) ==
    /\ c \in ArmedReconnect
    /\ channels[c].reconnectTimer <= now
    /\ LET rest == Sweep([channels EXCEPT ![c].reconnectTimer = NoTimer])
       IN /\ Len(rest) < MaxChannels
          /\ channels' = Append(rest, NewChannel(FALSE))
    /\ last' = Step("other", TRUE)
    /\ UNCHANGED << now, remote, isPaired, effRan, content,
                    localStorage, fetches, notified, lastNotify, burstLen,
                    count, burstRefreshes, liveFetchRan >>
    /\ UNCHANGED << deviceVars, display, store >>

\* ------------------------------------------------------------------ time
\* Instants time can advance to: the earliest deadline of an armed timer
\* and, right after a notification, the instant QuarterMs later.
TickTargets ==
    Deadlines \cup (IF lastNotify = now THEN {now + QuarterMs} ELSE {})

Tick(t) ==
    /\ t > now
    /\ t <= StartTime + Horizon
    /\ \A d \in Deadlines : t <= d
    /\ now' = t
    /\ last' = Step("other", TRUE)
    /\ UNCHANGED << remote, isPaired, effRan, content,
                    localStorage, channels, fetches, notified, lastNotify,
                    burstLen, count, burstRefreshes, liveFetchRan >>
    /\ UNCHANGED << deviceVars, display, store >>

\* The session with a healthy transport: every channel gets subscribed;
\* the store, the pairing, the requests and the notifications are free.
Next ==
    \/ \E p \in RemotePlaylists : ServerChange(p)
    \/ \E b \in BOOLEAN : Effect(b)
    \/ ManualRefresh
    \/ \E i \in 1..Len(fetches), ok \in BOOLEAN : FetchServed(i, ok)
    \/ \E i \in 1..Len(fetches) : LoadContentDone(i)
    \/ \E i \in 1..Len(fetches) : SubscriptionCallback(i)
    \/ \E stream \in {"device_content", "content"} : Notify(stream)
    \/ \E c \in Chans : DebounceFire(c)
    \/ \E c \in Chans : ChannelStatus(c, "SUBSCRIBED")
    \/ \E t \in TickTargets : Tick(t)

Spec == Init /\ [][Next]_vars

\* The session with a failing transport: channels may report CHANNEL_ERROR
\* or TIMED_OUT; the remote playlist stays as it is and requests succeed.
NextListener ==
    \/ \E b \in BOOLEAN : Effect(b)
    \/ \E i \in 1..Len(fetches) : FetchServed(i, TRUE)
    \/ \E i \in 1..Len(fetches) : LoadContentDone(i)
    \/ \E i \in 1..Len(fetches) : SubscriptionCallback(i)
    \/ \E stream \in {"device_content", "content"} : Notify(stream)
    \/ \E c \in Chans : DebounceFire(c)
    \/ \E c \in Chans, st \in {"SUBSCRIBED", "CHANNEL_ERROR", "TIMED_OUT"} :
          ChannelStatus(c, st)
    \/ \E c \in Chans : ReconnectFire(c)
    \/ \E t \in TickTargets : Tick(t)

SpecListener == Init /\ [][NextListener]_vars

\* The session with a working network: no request fails and every channel
\* gets subscribed; the store, the pairing and the notifications are free.
NextNet ==
    \/ \E p \in RemotePlaylists : ServerChange(p)
    \/ \E b \in BOOLEAN : Effect(b)
    \/ ManualRefresh
    \/ \E i \in 1..Len(fetches) : FetchServed(i, TRUE)
    \/ \E i \in 1..Len(fetches) : LoadContentDone(i)
    \/ \E i \in 1..Len(fetches) : SubscriptionCallback(i)
    \/ \E stream \in {"device_content", "content"} : Notify(stream)
    \/ \E c \in Chans : DebounceFire(c)
    \/ \E c \in Chans : ChannelStatus(c, "SUBSCRIBED")
    \/ \E t \in TickTargets : Tick(t)

SpecNet == Init /\ [][NextNet]_vars

TypeOK ==
    /\ now \in StartTime..(StartTime + Horizon)
    /\ remote \in RemotePlaylists
    /\ isPaired \in BOOLEAN
    /\ effRan \in BOOLEAN
    /\ Len(channels) <= MaxChannels
    /\ Len(fetches) <= MaxFetches
    /\ \A c \in Chans : channels[c].status \in Statuses /\ Active(channels[c])

\* ===================================================== device directory
\* ------------------------------------------------------------ values
\* results of generateDeviceCode (six decimal digits, as a string)
Codes == {"482913", "705126"}

\* results of window.crypto.randomUUID() and of the fallback expression
\* 'fallback-' + Math.random().toString(36).substring(2, 11)
Uuids == {"3f2a-uuid"}
Fallbacks == {"fallback-k3x", "fallback-q7m"}

\* accounts that can own the device, and names an owner gives it
Owners == {"owner-1"}
OwnerNames == {<<"Lobby screen">>}

\* `Pi Display ${deviceCode}`
PiDisplay(code) == <<"Pi Display ", code>>

\* The random results one step may draw: a uuid, a fallback identifier and
\* two device codes.  A result the step cannot use is not varied: the
\* fallback identifier while localStorage works, the second code while
\* sessionStorage works (the first one generated is stored and returned
\* from then on).
Draws ==
    [uuid : Uuids,
     fallback : IF webStorage.localOk THEN {"fallback-k3x"} ELSE Fallbacks,
     c1 : Codes,
     c2 : IF webStorage.sessionOk THEN {"482913"} ELSE Codes]

\* -------------------------------------------------- the state of a step
\* A handler runs as a chain of calls, each taking the state the previous
\* one left: the storages, the table, the two components, the functions
\* under way, the events under way, and what the chain has produced so far
\* (id, code: the last results of getDeviceId and getDeviceCode; threw: an
\* exception is propagating; ids, gen, lost: every identifier returned so
\* far, the codes generated in this step, the events lost so far).
Current ==
    [ws |-> webStorage, devices |-> devices, hook |-> hook,
     pairing |-> pairing, calls |-> calls, pushes |-> pushes,
     id |-> "", code |-> "", threw |-> FALSE, ids |-> ghost.ids, gen |-> 0,
     lost |-> ghost.lost]

\* a step ends in state S
Install(S) ==
    /\ webStorage' = S.ws
    /\ devices' = S.devices
    /\ hook' = S.hook
    /\ pairing' = S.pairing
    /\ calls' = S.calls
    /\ pushes' = S.pushes
    /\ ghost' = [ids |-> S.ids, gen |-> S.gen, lost |-> S.lost]
    /\ UNCHANGED << variant, contentVars, display, store >>

\* ------------------------------------------------------- DeviceService
\* getDeviceId: the stored device_id, or a new uuid that is then stored;
\* when localStorage throws, a new random fallback identifier on every call
getDeviceId(S, r) ==
    IF S.ws.localOk
    THEN IF S.ws.device_id # Null
         THEN [S EXCEPT !.id = S.ws.device_id[1],
                        !.ids = @ \cup {S.ws.device_id[1]}]
         ELSE [S EXCEPT !.id = r.uuid, !.ws.device_id = Some(r.uuid),
                        !.ids = @ \cup {r.uuid}]
    ELSE [S EXCEPT !.id = r.fallback, !.ids = @ \cup {r.fallback}]

\* generateDeviceCode: the k-th code drawn in this step
generateDeviceCode(S, r) == IF S.gen = 0 THEN r.c1 ELSE r.c2

\* getDeviceCode: the code stored for the session, or a generated one that
\* is then stored; when sessionStorage throws, a generated one on every call
getDeviceCode(S, r) ==
    IF S.ws.sessionOk
    THEN IF S.ws.device_code # Null
         THEN [S EXCEPT !.code = S.ws.device_code[1]]
         ELSE [S EXCEPT !.code = generateDeviceCode(S, r),
                        !.ws.device_code = Some(generateDeviceCode(S, r)),
                        !.gen = @ + 1]
    ELSE [S EXCEPT !.code = generateDeviceCode(S, r), !.gen = @ + 1]

\* refreshDeviceCode: a generated code is stored for the session; there is
\* no try block, so a throwing sessionStorage makes the call throw
refreshDeviceCode(S, r) ==
    IF S.ws.sessionOk
    THEN [S EXCEPT !.code = generateDeviceCode(S, r),
                   !.ws.device_code = Some(generateDeviceCode(S, r)),
                   !.gen = @ + 1]
    ELSE [S EXCEPT !.code = generateDeviceCode(S, r), !.gen = @ + 1,
                   !.threw = TRUE]

\* generateQRCodeData: getDeviceCode and getDeviceId once more
generateQRCodeData(S, r) == getDeviceId(getDeviceCode(S, r), r)

\* the object generateQRCodeData serializes, for the code and the
\* identifier the two calls returned (its timestamp, Date.now(), is read
\* by nothing in the page and is left out)
Payload(code, id) ==
    [type |-> "pi_board_device", device_code |-> code, device_id |-> id]

\* the placeholder code of initializeDevice's catch block: no code at all
fallbackCode_Empty == ""

\* the placeholders of the catch block of DevicePairing.initializeDevice
fallbackCode == "123456"
fallbackQr == Payload(fallbackCode, "fallback-id")

\* ------------------------------------------- asynchronous functions
\* An asynchronous function under way: op is the function, pc the request
\* it awaits, phase whether the table has answered.  id and code are the
\* identifier and the code the request carries; named: the update of
\* registerDevice also sets device_name; shown: the code initializeDevice
\* or the Refresh Code handler will put on screen, qr: the QR data it holds
\* for the screen; seen: the isPaired its closure holds; live: its component instance is still mounted.  ok, row,
\* dup and valid are the answer: no error, the row returned (of its
\* columns, user_id is the one the callers read), the error code is 23505,
\* the result of validate_device_code.
Await(op, pc, S) ==
    [op |-> op, pc |-> pc, phase |-> "sent", id |-> S.id, code |-> S.code,
     named |-> FALSE, shown |-> "", qr |-> Null, seen |-> FALSE,
     live |-> TRUE,
     ok |-> FALSE, row |-> Null, dup |-> FALSE, valid |-> FALSE]

\* the function goes on to await another request, with the same
\* identifier and code (Then) or with the ones the chain has just got (With)
Then(c, pc) ==
    [c EXCEPT !.pc = pc, !.phase = "sent",
              !.ok = FALSE, !.row = Null, !.dup = FALSE, !.valid = FALSE]

With(c, S) == [c EXCEPT !.id = S.id, !.code = S.code]

\* the function has returned or thrown for good
Done(c) == [c EXCEPT !.pc = "done"]

Running(c) == c.pc # "done"

\* ------------------------------------------------ the table devices
\* the rows with primary key id (the key is unique: error 23505)
Rows_KeyNotChecked(ds, id) == {}

Rows(ds, id) == {d \in ds : d.id = id}

\* the subscriptions whose filter id=eq.<id> matches, in order
Subscribers(S, id) ==
    (IF S.hook.sub = Some(id) THEN <<"hook">> ELSE << >>)
       \o (IF S.pairing.sub = Some(id) THEN <<"pairing">> ELSE << >>)

\* An UPDATE of the row d to the row e: every matching subscription is
\* sent the event, whose payload.new is e.
Update(S, d, e) ==
    [S EXCEPT !.devices = (@ \ {d}) \cup {e},
              !.pushes = @ \o [k \in 1..Len(Subscribers(S, d.id)) |->
                                  [to |-> Subscribers(S, d.id)[k],
                                   user_id |-> e.user_id]]]

\* the row registerDevice inserts
NewDevice(id, code) ==
    [id |-> id, device_code |-> code, device_name |-> PiDisplay(code),
     user_id |-> Null]

\* The table answers the request of the i-th call (ok: the request gets
\* through and is executed; otherwise a transport error is returned).
Answer(S, i, ok) ==
    LET c == S.calls[i]
        found == Rows(S.devices, c.id)
        d == CHOOSE x \in found : TRUE
        yes(row) == [c EXCEPT !.phase = "served", !.ok = TRUE,
                              !.row = IF row = Null THEN Null
                                      ELSE Some([user_id |-> row[1].user_id])]
        no == [c EXCEPT !.phase = "served", !.ok = FALSE]
    IN  CASE ~ok -> [S EXCEPT !.calls[i] = no]
          [] c.pc = "test" -> [S EXCEPT !.calls[i] = yes(Null)]
          [] c.pc \in {"select", "paired", "info"} ->
                \* .single(): no row is an error (PGRST116), data is null
                IF found = {} THEN [S EXCEPT !.calls[i] = no]
                ELSE [S EXCEPT !.calls[i] = yes(Some(d))]
          [] c.pc = "insert" ->
                IF found = {}
                THEN [S EXCEPT !.devices = @ \cup {NewDevice(c.id, c.code)},
                               !.calls[i] = yes(Some(NewDevice(c.id, c.code)))]
                ELSE [S EXCEPT !.calls[i] = [no EXCEPT !.dup = TRUE]]
          [] c.pc \in {"update", "update2", "setCode"} ->
                IF found = {} THEN [S EXCEPT !.calls[i] = no]
                ELSE LET e == [d EXCEPT
                                 !.device_code = c.code,
                                 !.device_name =
                                     IF c.pc = "update" /\ c.named
                                     THEN PiDisplay(c.code) ELSE @]
                     IN [Update(S, d, e) EXCEPT !.calls[i] = yes(Some(e))]
          [] c.pc = "heartbeat" ->
                IF found = {} THEN [S EXCEPT !.calls[i] = yes(Null)]
                ELSE [Update(S, d, d) EXCEPT !.calls[i] = yes(Null)]
          [] c.pc = "validate" ->
                [S EXCEPT !.calls[i] =
                    [yes(Null) EXCEPT !.valid =
                        \E x \in S.devices : x.device_code = c.shown]]

\* ---------------------------------------------------- App (rendering)
\* AppContent renders DevicePairing when the hook is neither loading nor
\* paired
Mounted_AlsoPaired(h) == h.mounted /\ ~h.loading

Mounted(h) == h.mounted /\ ~h.loading /\ ~h.isPaired

\* DevicePairing leaves the screen: the cleanup of its effect clears the
\* three intervals and unsubscribes; functions under way go on, detached
Unmount(S) ==
    [S EXCEPT !.pairing = PairingClosed,
              !.calls = [k \in 1..Len(@) |->
                           IF @[k].op \in {"compInit", "poll", "rotate", "manual"}
                           THEN [@[k] EXCEPT !.live = FALSE] ELSE @[k]],
              !.pushes = SelectSeq(@, LAMBDA p : p.to # "pairing")]

\* subscribeToDevicePairing: the filter holds what getDeviceId returns now
subscribeToDevicePairing(S, who, r) ==
    LET S1 == getDeviceId(S, r)
    IN IF who = "hook" THEN [S1 EXCEPT !.hook.sub = Some(S1.id)]
       ELSE [S1 EXCEPT !.pairing.sub = Some(S1.id)]

\* DevicePairing comes on screen with its useState defaults and its effect
\* runs: initializeDevice up to its first await (the connection test), the
\* three intervals, the pairing subscription
Mount(S, r) ==
    LET S1 == [S EXCEPT !.pairing = [PairingClosed EXCEPT !.loading = TRUE],
                        !.calls = Append(@, Await("compInit", "test", S))]
    IN subscribeToDevicePairing(S1, "pairing", r)

\* registerDevice up to its first await: the identifier and the code
registerDevice(S, r) == getDeviceCode(getDeviceId(S, r), r)

\* The effect of useDeviceStatus (dependencies: isPaired), after the cleanup
\* of the one before: initializeDevice up to its first await (setLoading,
\* then the select of registerDevice), the pairing subscription of the
\* realtime variant, the status interval.
HookEffect(S, r) ==
    LET S1 == [S EXCEPT !.hook.sub = Null, !.hook.loading = TRUE,
                        !.pushes = SelectSeq(@, LAMBDA p : p.to # "hook")]
        S2 == registerDevice(S1, r)
        S3 == [S2 EXCEPT !.calls = Append(@, Await("hookInit", "select", S2))]
    IN IF variant = "realtime"
       THEN subscribeToDevicePairing(S3, "hook", r) ELSE S3

\* React commits the state a handler has set (before: the hook as it was
\* rendered last): DevicePairing is mounted or unmounted as App renders it,
\* then the effect of the hook runs if isPaired has changed, and its
\* setLoading(true) is committed in turn.
Commit(before, S, r) ==
    LET S1 == IF Mounted(before) /\ ~Mounted(S.hook) THEN Unmount(S)
              ELSE IF ~Mounted(before) /\ Mounted(S.hook) THEN Mount(S, r)
              ELSE S
    IN IF S.hook.isPaired = before.isPaired THEN S1
       ELSE LET S2 == HookEffect(S1, r)
            IN IF Mounted(S1.hook) THEN Unmount(S2) ELSE S2

\* handlePaired, the onPaired of DevicePairing; it works after the unmount
handlePaired_Ignored(S, deviceInfo) == S

handlePaired(S, deviceInfo) ==
    [S EXCEPT !.hook.device = deviceInfo, !.hook.isPaired = TRUE]

\* ----------------------------------------- continuations after an await
\* what the answer of isDevicePaired / getDeviceInfo amounts to
IsPaired(c) == c.ok /\ c.row # Null /\ c.row[1].user_id # Null
DeviceInfo(c) == c.ok /\ c.row # Null

\* what getDeviceInfo returns: the row, or null after an error
deviceInfo(c) == IF DeviceInfo(c) THEN c.row ELSE Null

\* isDevicePaired, getDeviceInfo, updateDeviceStatus, updateDeviceCode up
\* to their await: each asks getDeviceId again
Ask(S, i, pc, r) ==
    LET S1 == getDeviceId(S, r)
    IN [S1 EXCEPT !.calls[i] = Then(With(@, S1), pc)]

updateDeviceCode(S, i, r) ==
    LET S1 == getDeviceCode(getDeviceId(S, r), r)
    IN [S1 EXCEPT !.calls[i] = Then(With(@, S1), "setCode")]

\* setState of DevicePairing: nothing happens once the instance is gone
SetPairing(S, i, p) == IF S.calls[i].live THEN [S EXCEPT !.pairing = p] ELSE S

\* registerDevice after an await.  It ends with pc "registered" or with
\* threw set; the caller goes on from there.
registerDeviceResume(S, i) ==
    LET c == S.calls[i]
    IN CASE c.pc = "select" ->
               \* an error other than PGRST116 is only logged
               IF c.ok /\ c.row # Null
               THEN [S EXCEPT !.calls[i] =
                       [Then(c, "update") EXCEPT
                           !.named = (c.row[1].user_id = Null)]]
               ELSE [S EXCEPT !.calls[i] = Then(c, "insert")]
         [] c.pc = "insert" /\ ~c.ok /\ c.dup ->
               [S EXCEPT !.calls[i] = Then(c, "update2")]
         [] c.pc \in {"insert", "update", "update2"} /\ c.ok ->
               [S EXCEPT !.calls[i].pc = "registered", !.calls[i].named = FALSE]
         [] OTHER -> [S EXCEPT !.threw = TRUE]

\* initializeDevice of useDeviceStatus after an await
hookInitResume(S, i, r) ==
    LET c == S.calls[i]
        R == IF c.pc \in {"select", "insert", "update", "update2"}
             THEN registerDeviceResume(S, i) ELSE S
        rc == R.calls[i]
        finally(T) == [T EXCEPT !.hook.loading = FALSE, !.threw = FALSE,
                                !.calls[i] = Done(@)]
    IN CASE R.threw -> finally(R)
         [] rc.pc = "registered" -> Ask(R, i, "paired", r)
         [] rc.phase = "sent" -> R
         [] c.pc = "paired" ->
               IF IsPaired(c)
               THEN Ask([S EXCEPT !.hook.isPaired = TRUE], i, "info", r)
               ELSE finally([S EXCEPT !.hook.isPaired = FALSE])
         [] c.pc = "info" -> finally([S EXCEPT !.hook.device = deviceInfo(c)])

\* initializeDevice of DevicePairing after an await
compInitResume(S, i, r) ==
    LET c == S.calls[i]
        R == IF c.pc \in {"select", "insert", "update", "update2"}
             THEN registerDeviceResume(S, i) ELSE S
        rc == R.calls[i]
        finally(T) == [SetPairing(T, i, [T.pairing EXCEPT !.loading = FALSE])
                          EXCEPT !.threw = FALSE, !.calls[i] = Done(@)]
        \* catch: the placeholder code and QR data are put on screen
        catch(T) == finally(SetPairing(T, i,
                               [T.pairing EXCEPT
                                   !.deviceCode = fallbackCode,
                                   !.qrData = Some(fallbackQr)]))
        show(T) == SetPairing(T, i, [T.pairing EXCEPT !.deviceCode = c.shown,
                                                      !.qrData = c.qr])
    IN CASE R.threw -> catch(R)
         [] rc.pc = "registered" ->
               \* code = getDeviceCode(); qr = generateQRCodeData();
               \* validateDeviceCode(code)
               LET S1 == getDeviceCode(R, r)
                   S2 == generateQRCodeData(S1, r)
               IN [S2 EXCEPT !.calls[i] =
                       [Then(rc, "validate") EXCEPT
                           !.shown = S1.code,
                           !.qr = Some(Payload(S2.code, S2.id))]]
         [] rc.phase = "sent" -> R
         [] c.pc = "test" ->
               IF c.ok
               THEN LET S1 == registerDevice(S, r)
                    IN [S1 EXCEPT !.calls[i] = Then(With(c, S1), "select")]
               ELSE catch(S)
         [] c.pc = "validate" ->
               IF c.ok /\ c.valid THEN Ask(show(S), i, "paired", r)
               ELSE updateDeviceCode(S, i, r)
         [] c.pc = "setCode" ->
               IF c.ok THEN Ask(show(S), i, "paired", r) ELSE catch(S)
         [] c.pc = "paired" ->
               IF IsPaired(c) THEN Ask(S, i, "info", r) ELSE finally(S)
         [] c.pc = "info" ->
               IF DeviceInfo(c) THEN finally(handlePaired(S, c.row))
               ELSE finally(S)

\* checkPairingStatus (the 5 s interval of DevicePairing) after an await;
\* the isPaired of its closure is false
checkPairingStatusResume(S, i, r) ==
    LET c == S.calls[i]
    IN CASE c.pc = "paired" ->
               IF IsPaired(c) THEN Ask(S, i, "info", r)
               ELSE [S EXCEPT !.calls[i] = Done(@)]
         [] c.pc = "info" ->
               IF DeviceInfo(c)
               THEN [handlePaired(S, c.row) EXCEPT !.calls[i] = Done(@)]
               ELSE [S EXCEPT !.calls[i] = Done(@)]

\* refreshDeviceCode (the 600 s interval) after its await: only a log line
refreshDeviceCodeResume(S, i) == [S EXCEPT !.calls[i] = Done(@)]

\* the Refresh Code handler after its await of updateDeviceCode
refreshCodeClickResume(S, i, r) ==
    LET c == S.calls[i]
    IN IF c.ok
       THEN LET S1 == generateQRCodeData(S, r)
            IN [SetPairing(S1, i,
                           [S.pairing EXCEPT
                               !.deviceCode = c.shown,
                               !.qrData = Some(Payload(S1.code, S1.id))])
                   EXCEPT !.calls[i] = Done(@)]
       ELSE [S EXCEPT !.calls[i] = Done(@)]

\* updateStatus of useDeviceStatus after an await: the realtime variant
\* only sends the heartbeat, the polling variant then checks the pairing
updateStatusResume_HeartbeatOnly(S, i, r) == [S EXCEPT !.calls[i] = Done(@)]

updateStatusResume(S, i, r) ==
    LET c == S.calls[i]
    IN CASE c.pc = "heartbeat" ->
               IF variant = "polling" THEN Ask(S, i, "paired", r)
               ELSE [S EXCEPT !.calls[i] = Done(@)]
         [] c.pc = "paired" ->
               IF IsPaired(c) = c.seen THEN [S EXCEPT !.calls[i] = Done(@)]
               ELSE IF IsPaired(c)
                    THEN Ask([S EXCEPT !.hook.isPaired = TRUE], i, "info", r)
                    ELSE [S EXCEPT !.hook.isPaired = FALSE,
                                   !.hook.device = Null,
                                   !.calls[i] = Done(@)]
         [] c.pc = "info" -> [S EXCEPT !.hook.device = deviceInfo(c),
                                       !.calls[i] = Done(@)]

\* --------------------------------------------------------------- steps
\* The functions under way have no order among them: they are listed by
\* function, those of one function as they started.
Functions == <<"hookInit", "compInit", "poll", "rotate", "manual", "status">>

ByFunction(cs) ==
    LET of(k) == SelectSeq(cs, LAMBDA c : c.op = Functions[k])
    IN of(1) \o of(2) \o of(3) \o of(4) \o of(5) \o of(6)

\* A step of the device part ends: what the handler has set is committed
\* and the functions that have returned are dropped.  At most MaxCalls
\* functions and MaxPushes events are under way.
Finish(S, r) ==
    LET T == Commit(hook, S, r)
        U == [T EXCEPT !.calls = ByFunction(SelectSeq(@, Running))]
    IN /\ Len(U.calls) <= MaxCalls
       /\ Len(U.pushes) <= MaxPushes
       /\ Install(U)

\* A timer or an account starts something only while fewer than MaxCalls
\* functions and fewer than MaxPushes events are under way: the rest is
\* left to the steps that continue what has been started.
Room == Len(calls) < MaxCalls /\ Len(pushes) < MaxPushes

\* a function of kind op is under way for the mounted components
Busy(op) == \E k \in 1..Len(calls) : calls[k].op = op /\ calls[k].live

\* index.tsx renders App: useDeviceStatus mounts and its effect runs
AppMount(r) ==
    /\ ~hook.mounted
    /\ Finish(HookEffect([Current EXCEPT !.hook.mounted = TRUE], r), r)

\* the table executes the request of the i-th call, or the request fails
Served(i, ok) ==
    /\ i \in 1..Len(calls)
    /\ calls[i].phase = "sent"
    /\ Finish(Answer(Current, i, ok), CHOOSE r \in Draws : TRUE)

\* the i-th call goes on after its await
Resume(i, r) ==
    /\ i \in 1..Len(calls)
    /\ calls[i].phase = "served"
    /\ LET op == calls[i].op
       IN Finish(CASE op = "hookInit" -> hookInitResume(Current, i, r)
                   [] op = "compInit" -> compInitResume(Current, i, r)
                   [] op = "poll" -> checkPairingStatusResume(Current, i, r)
                   [] op = "rotate" -> refreshDeviceCodeResume(Current, i)
                   [] op = "manual" -> refreshCodeClickResume(Current, i, r)
                   [] op = "status" -> updateStatusResume(Current, i, r),
                 r)

\* pairingInterval: checkPairingStatus up to its await of isDevicePaired
pairingInterval(r) ==
    /\ Room
    /\ Mounted(hook)
    /\ ~Busy("poll")
    /\ LET S == getDeviceId(Current, r)
       IN Finish([S EXCEPT !.calls = Append(@, Await("poll", "paired", S))], r)

\* codeRefreshInterval: refreshDeviceCode of DevicePairing up to its await
\* of updateDeviceCode (the isPaired of its closure is false)
codeRefreshInterval(r) ==
    /\ Room
    /\ Mounted(hook)
    /\ ~Busy("rotate")
    /\ LET S1 == getDeviceCode(Current, r)
           S2 == generateQRCodeData(S1, r)
           S3 == [S2 EXCEPT !.pairing.deviceCode = S1.code,
                            !.pairing.qrData = Some(Payload(S2.code, S2.id)),
                            !.pairing.countdown = CountdownStart]
           S4 == getDeviceCode(getDeviceId(S3, r), r)
       IN Finish([S4 EXCEPT !.calls = Append(@, Await("rotate", "setCode", S4))], r)

\* countdownInterval: one second less, 600 again after 1
countdownInterval ==
    /\ Mounted(hook)
    /\ pairing.countdown > CountdownStart - MaxTicks
    /\ Finish([Current EXCEPT !.pairing.countdown =
                   IF @ <= 1 THEN CountdownStart ELSE @ - 1], CHOOSE r \in Draws : TRUE)

\* the Refresh Code button, up to its await of updateDeviceCode
RefreshCodeClick(r) ==
    /\ Mounted(hook)
    /\ ~pairing.loading
    /\ ~Busy("manual")
    /\ LET S1 == refreshDeviceCode(Current, r)
           S2 == getDeviceCode(getDeviceId(S1, r), r)
       IN IF S1.threw
          THEN Finish([S1 EXCEPT !.threw = FALSE], r)
          ELSE Finish([S2 EXCEPT !.calls = Append(@,
                          [Await("manual", "setCode", S2)
                              EXCEPT !.shown = S1.code])], r)

\* statusInterval: updateStatus up to its await of updateDeviceStatus
statusInterval(r) ==
    /\ Room
    /\ hook.mounted
    /\ ~Busy("status")
    /\ LET S == getDeviceId(Current, r)
       IN Finish([S EXCEPT !.calls = Append(@,
                     [Await("status", "heartbeat", S)
                         EXCEPT !.seen = hook.isPaired])], r)

\* The first event under way reaches its subscription: the hook sets
\* isPaired to what the row says and keeps the row if it has an owner; DevicePairing, whose closure holds
\* isPaired = false, calls onPaired when the row has an owner.
PushDelivered(r) ==
    /\ pushes # << >>
    /\ LET p == Head(pushes)
           S == [Current EXCEPT !.pushes = Tail(@)]
           deviceRow == Some([user_id |-> p.user_id])
       IN Finish(IF p.to = "hook"
                 THEN [S EXCEPT !.hook.isPaired = (p.user_id # Null),
                                !.hook.device = IF p.user_id # Null
                                                THEN deviceRow ELSE Null]
                 ELSE IF p.user_id # Null THEN handlePaired(S, deviceRow)
                      ELSE S, r)

\* the first event under way is lost
PushLost ==
    /\ pushes # << >>
    /\ ghost.lost < MaxLost
    /\ Finish([Current EXCEPT !.pushes = Tail(@), !.lost = @ + 1], CHOOSE r \in Draws : TRUE)

\* an account claims the device (and may name it), or gives it up
OwnerPairs(o) ==
    \E d \in devices :
       /\ d.user_id = Null
       /\ \E name \in OwnerNames \cup {d.device_name} :
             Finish(Update(Current, d,
                           [d EXCEPT !.user_id = Some(o), !.device_name = name]), CHOOSE r \in Draws : TRUE)

OwnerUnlinks ==
    /\ Room
    /\ \E d \in devices :
       /\ d.user_id # Null
       /\ Finish(Update(Current, d, [d EXCEPT !.user_id = Null]), CHOOSE r \in Draws : TRUE)

\* ------------------------------------------------------ specifications
\* the content part at rest
ContentIdle ==
    /\ now = StartTime
    /\ remote = <<ItemX>>
    /\ isPaired = FALSE
    /\ effRan = FALSE
    /\ content = << >>
    /\ localStorage = removeCache
    /\ channels = << >>
    /\ fetches = << >>
    /\ notified = TRUE
    /\ lastNotify = NoTimer
    /\ burstLen = 0
    /\ count = [notify |-> 0, errors |-> 0, pairings |-> 0]
    /\ burstRefreshes = 0
    /\ liveFetchRan = FALSE
    /\ last = Step("other", TRUE)

\* a first run of the page: nothing stored, no row; either storage may be
\* unavailable (its methods throw)
InitDevice ==
    /\ ContentIdle
    /\ display = DisplayClosed
    /\ store = StoreEmpty
    /\ variant \in {"polling", "realtime"}
    /\ devices = {}
    /\ webStorage \in [localOk : BOOLEAN, sessionOk : BOOLEAN,
                       device_id : {Null}, device_code : {Null}]
    /\ hook = HookUnmounted
    /\ pairing = PairingClosed
    /\ calls = << >>
    /\ pushes = << >>
    /\ ghost = [ids |-> {}, gen |-> 0, lost |-> 0]

\* the first registrations of an installation whose identifier is stored,
\* and an owner who claims the device meanwhile
InitRegister ==
    /\ InitDevice
    /\ variant = "polling"
    /\ webStorage.localOk

NextRegister ==
    \/ \E r \in Draws : AppMount(r)
    \/ \E i \in 1..Len(calls), ok \in BOOLEAN : Served(i, ok)
    \/ \E i \in 1..Len(calls), r \in Draws : Resume(i, r)
    \/ \E r \in Draws : PushDelivered(r)
    \/ \E o \in Owners : OwnerPairs(o)

SpecRegister == InitRegister /\ [][NextRegister]_vars

\* the registrations alone: nobody else touches the row
NextTwice ==
    \/ \E r \in Draws : AppMount(r)
    \/ \E i \in 1..Len(calls), ok \in BOOLEAN : Served(i, ok)
    \/ \E i \in 1..Len(calls), r \in Draws : Resume(i, r)
    \/ \E r \in Draws : PushDelivered(r)

SpecTwice == InitDevice /\ [][NextTwice]_vars

\* the pairing screen of a device nobody claims: issuance, rotation and
\* manual refresh of the code
InitCode ==
    /\ InitDevice
    /\ variant = "realtime"
    /\ webStorage.localOk

NextCode ==
    \/ \E r \in Draws : AppMount(r)
    \/ \E i \in 1..Len(calls), ok \in BOOLEAN : Served(i, ok)
    \/ \E i \in 1..Len(calls), r \in Draws : Resume(i, r)
    \/ \E r \in Draws : codeRefreshInterval(r)
    \/ countdownInterval
    \/ \E r \in Draws : RefreshCodeClick(r)
    \/ \E r \in Draws : PushDelivered(r)

SpecCode == InitCode /\ [][NextCode]_vars

\* pairing and unlinking with working storages: heartbeats, status polls,
\* events, requests that may fail
InitPairing ==
    /\ InitDevice
    /\ webStorage.localOk
    /\ webStorage.sessionOk

NextPairing ==
    \/ \E r \in Draws : AppMount(r)
    \/ \E i \in 1..Len(calls), ok \in BOOLEAN : Served(i, ok)
    \/ \E i \in 1..Len(calls), r \in Draws : Resume(i, r)
    \/ \E r \in Draws : statusInterval(r)
    \/ \E r \in Draws : PushDelivered(r)
    \/ \E o \in Owners : OwnerPairs(o)
    \/ OwnerUnlinks

SpecPairing == InitPairing /\ [][NextPairing]_vars

\* the timers of the pairing screen and an owner who claims the device and
\* gives it up; every request gets through
InitRotation ==
    /\ InitPairing
    /\ variant = "realtime"

NextRotation ==
    \/ \E r \in Draws : AppMount(r)
    \/ \E i \in 1..Len(calls) : Served(i, TRUE)
    \/ \E i \in 1..Len(calls), r \in Draws : Resume(i, r)
    \/ \E r \in Draws : codeRefreshInterval(r)
    \/ countdownInterval
    \/ \E r \in Draws : PushDelivered(r)
    \/ \E o \in Owners : OwnerPairs(o)
    \/ OwnerUnlinks

SpecRotation == InitRotation /\ [][NextRotation]_vars

\* Every request gets through and is answered, every continuation runs,
\* and an event under way is delivered unless it is one of the MaxLost
\* lost ones: some such step is taken as long as one is possible.
Work ==
    \/ \E i \in 1..Len(calls) : Served(i, TRUE)
    \/ \E i \in 1..Len(calls), r \in Draws : Resume(i, r)
    \/ \E r \in Draws : PushDelivered(r)

\* the same of the function f alone: no function waits for ever while the
\* others go on (strong fairness, as a full list of events under way makes
\* an update wait for a delivery)
WorkOf(f) ==
    \E i \in 1..Len(calls) :
       /\ calls[i].op = f
       /\ \/ Served(i, TRUE)
          \/ \E r \in Draws : Resume(i, r)

\* an owner claims the device and keeps it, and the network works
NextPaired ==
    \/ \E r \in Draws : AppMount(r)
    \/ \E i \in 1..Len(calls) : Served(i, TRUE)
    \/ \E i \in 1..Len(calls), r \in Draws : Resume(i, r)
    \/ \E r \in Draws : pairingInterval(r)
    \/ \E r \in Draws : PushDelivered(r)
    \/ \E o \in Owners : OwnerPairs(o)

SpecPaired ==
    /\ InitPairing
    /\ [][NextPaired]_vars
    /\ WF_vars(Work)
    /\ WF_vars(\E r \in Draws : pairingInterval(r))

\* A paired device shows its content and nothing is under way: the row
\* has an owner, the identifier and the code of the session are stored,
\* the hook of the realtime variant is subscribed.  The owner gives the
\* device up, one event may be lost, and the network works.
InitUnlinked ==
    /\ ContentIdle
    /\ display = DisplayClosed
    /\ store = StoreEmpty
    /\ variant \in {"polling", "realtime"}
    /\ \E id \in Uuids, code \in Codes, o \in Owners, name \in OwnerNames :
          /\ devices = {[NewDevice(id, code) EXCEPT !.user_id = Some(o),
                                                    !.device_name = name]}
          /\ webStorage = [StorageEmpty EXCEPT !.device_id = Some(id),
                                               !.device_code = Some(code)]
          /\ hook = [mounted |-> TRUE, isPaired |-> TRUE,
                     device |-> Some([user_id |-> Some(o)]), loading |-> FALSE,
                     sub |-> IF variant = "realtime" THEN Some(id) ELSE Null]
    /\ pairing = PairingClosed
    /\ calls = << >>
    /\ pushes = << >>
    /\ ghost = [ids |-> {}, gen |-> 0, lost |-> 0]

NextUnlinked ==
    \/ \E i \in 1..Len(calls) : Served(i, TRUE)
    \/ \E i \in 1..Len(calls), r \in Draws : Resume(i, r)
    \/ \E r \in Draws : statusInterval(r)
    \/ \E r \in Draws : PushDelivered(r)
    \/ PushLost
    \/ OwnerUnlinks

SpecUnlinked ==
    /\ InitUnlinked
    /\ [][NextUnlinked]_vars
    /\ SF_vars(WorkOf("hookInit"))
    /\ SF_vars(WorkOf("status"))
    /\ WF_vars(\E r \in Draws : PushDelivered(r))
    /\ WF_vars(\E r \in Draws : statusInterval(r))
\* ================================================================ claims
\* the completion of the i-th request in flight, by either handler
Completion(i) == LoadContentDone(i) \/ SubscriptionCallback(i)

InFlight == 1..Len(fetches)

\* what is in the cache slot
Cached == getCachedContent(localStorage)

\* C1: while the device is not paired (and the effect has run for that),
\* the current playlist is the default content and no step writes or clears
\* the cache, also when a request started while paired completes later.
C1_UnpairedDefaultCacheUntouched ==
    [][(effRan /\ ~isPaired /\ ~isPaired')
          => (content' = getDefaultContent /\ localStorage' = localStorage)]_vars

\* C2: when the query of a live fetch fails while the cache holds a non-empty
\* playlist P, the resulting current playlist is P; it is the default content
\* only when the cache is empty.
C2_FailedFetchFallsBackToCache ==
    [][\A i \in InFlight :
          (isPaired /\ Completion(i) /\ ~fetches[i].ok)
             => content' = (IF Cached # << >> THEN Cached
                            ELSE getDefaultContent)]_vars

C4_FetchedPlaylistShownAndCached ==
    [][/\ \A i \in InFlight :
             (Completion(i) /\ fetches[i].ok /\ fetches[i].data # << >>)
                => /\ content' = fetches[i].data
                   /\ getCachedContent(localStorage') = fetches[i].data
                   /\ localStorage'.cache_timestamp # Null
                   /\ parseInt(localStorage'.cache_timestamp[1]) = now
       /\ (content' \notin {<< >>, getDefaultContent}
              => getCachedContent(localStorage') = content')]_vars

\* C4 witness: the subscription callback has just stored a fetched playlist,
\* later than the page load
C4_Witness ==
    /\ isPaired
    /\ last = [op |-> "SubscriptionCallback", ok |-> TRUE]
    /\ content = <<ItemX>>
    /\ Cached = <<ItemX>>
    /\ now > StartTime
    /\ parseInt(localStorage.cache_timestamp[1]) = now

\* C5: when a live sync yields an empty playlist, on the load path as on the
\* notification path, the cache is cleared and the default content is shown.
C5_EmptySyncClearsCache ==
    [][\A i \in InFlight :
          (isPaired /\ Completion(i) /\ fetches[i].ok /\ fetches[i].data = << >>)
             => (localStorage' = removeCache /\ content' = getDefaultContent)
      ]_vars

\* C6: on the cold start of a paired device whose cache is fresh and not
\* empty, as long as no live fetch has completed in the session, the current
\* playlist is the cached playlist and a live fetch is on its way.
C6_ColdStartShowsFreshCache ==
    (/\ isPaired /\ effRan /\ ~liveFetchRan
     /\ isCacheValid(localStorage, now) /\ Cached # << >>)
       => (content = Cached /\ fetches # << >>)

\* the channels that receive change events or are about to
LiveChans == {c \in Chans : Live(channels[c])}

\* C7: a burst of notifications, each less than DebounceMs after the one
\* before, triggers exactly one refresh, DebounceMs after the last of them:
\* every armed debounce timer is due then, no burst has a second refresh,
\* and once no timer is armed the burst has had its refresh.
C7_OneRefreshPerBurst ==
    /\ burstRefreshes <= 1
    /\ \A c \in ArmedDebounce :
          channels[c].debounceTimer = lastNotify + DebounceMs
    /\ (lastNotify # NoTimer /\ ArmedDebounce = {}) => burstRefreshes = 1

\* C8: whatever transport errors and re-subscriptions have happened, at most
\* one content subscription is live for the device at any time.
C8_AtMostOneLiveSubscription == Cardinality(LiveChans) <= 1

\* C9: whenever the transport reports CHANNEL_ERROR or TIMED_OUT for a
\* channel, a re-subscribe is armed for ReconnectMs later.
C9_ErrorOrDropArmsReconnect ==
    [][\A c \in Chans, st \in {"CHANNEL_ERROR", "TIMED_OUT"} :
          ChannelStatus(c, st)
             => \E d \in 1..Len(channels') :
                   channels'[d].reconnectTimer = now + ReconnectMs
      ]_vars

\* what the store holds for the device, as the resolution shows it
ServerTruth == IF remote # << >> THEN remote ELSE getDefaultContent

\* C10: for a paired device with a working network, once the last change
\* has been notified and no refresh is pending or in flight, the current
\* playlist is the server's playlist: an older fetch completing late never
\* replaces the result of a newer one.
C10_QuiescentMatchesServer ==
    (/\ isPaired /\ effRan /\ notified
     /\ fetches = << >> /\ ArmedDebounce = {})
       => content = ServerTruth

\* ========================================================= device claims
\* the row of the device has an owner / has none
Owned == \E d \in devices : d.user_id # Null
Unowned == devices # {} /\ \A d \in devices : d.user_id = Null

\* App shows ContentDisplay / DevicePairing
ContentShown == hook.mounted /\ ~hook.loading /\ hook.isPaired
PairingShown == Mounted(hook)

\* C11: when the row of the device gets an owner and keeps it, and the
\* network works, the client eventually is paired (by the event or by the
\* 5 s poll of the pairing screen) and the content display is on screen.
C11_OwnerSetLeadsToContent == Owned ~> ContentShown

\* C11 witness: the polling variant, whose hook has no subscription, shows
\* the content display of an owned device with nothing left under way.
C11_Witness ==
    /\ variant = "polling"
    /\ Owned
    /\ ContentShown
    /\ calls = << >>
    /\ pushes = << >>

FoundUnowned(i) ==
    /\ calls[i].pc = "paired"
    /\ calls[i].phase = "served"
    /\ calls[i].ok
    /\ calls[i].row # Null
    /\ calls[i].row[1].user_id = Null

\* C13: the client goes from paired to unpaired only on the word of the
\* row: by an event whose row has no owner or by a pairing-status check
\* that got through and found none, never by a check that failed.
C13_UnpairedOnlyOnOwnerNull ==
    [][(hook.isPaired /\ ~hook'.isPaired)
          => \/ pushes # << >> /\ Head(pushes).to = "hook"
                               /\ Head(pushes).user_id = Null
             \/ \E i \in 1..Len(calls) : FoundUnowned(i)
      ]_vars

\* C14: a tick of the 600 s codeRefreshInterval on the pairing screen
\* generates a code (r.c1, the first drawn in the step), makes it the code
\* of the session and the code on screen, sends it to the row with
\* updateDeviceCode and sets the countdown to 600 again.
C14_TickIssuesFreshCode ==
    [][\A r \in Draws :
          codeRefreshInterval(r)
             => /\ ghost'.gen >= 1
                /\ webStorage'.device_code = Some(r.c1)
                /\ pairing'.deviceCode = r.c1
                /\ pairing'.countdown = CountdownStart
                /\ \E i \in 1..Len(calls') :
                      /\ calls'[i].op = "rotate"
                      /\ calls'[i].pc = "setCode"
                      /\ calls'[i].code = r.c1
      ]_vars

\* the 600 s rotations of the code that are under way
Rotations(cs) == Len(SelectSeq(cs, LAMBDA c : c.op = "rotate"))

\* C15: from a state where the client is paired no step is a tick of
\* codeRefreshInterval or of countdownInterval: no rotation of the code
\* starts (no code is issued, no updateDeviceCode is sent for one) and the
\* countdown stays where it is.
C15_NoRotationWhilePaired ==
    [][hook.isPaired
          => /\ \A r \in Draws : ~codeRefreshInterval(r)
             /\ ~countdownInterval
             /\ Rotations(calls') <= Rotations(calls)
             /\ pairing'.countdown = pairing.countdown
      ]_vars

\* C15 witness: the client is paired and shows the content while a rotation
\* that a tick started on the pairing screen is still under way.
C15_Witness ==
    /\ ContentShown
    /\ Owned
    /\ Rotations(calls) > 0

\* the device has its row, no registration and no update of the code is
\* under way, and the pairing screen shows a code that was issued (not the
\* placeholder of its catch)
CodeSettled ==
    /\ \E d \in devices : d.id \in ghost.ids
    /\ PairingShown
    /\ ~pairing.loading
    /\ calls = << >>
    /\ pairing.deviceCode \in Codes

\* C16: whenever no registration or update of the code is under way, the
\* code on screen is the code of the row of this device and the code
\* stored for the session.
C16_RowCodeIsSessionCodeIsShown ==
    CodeSettled
       => /\ \A d \in devices : d.id \in ghost.ids => d.device_code = pairing.deviceCode
          /\ webStorage.sessionOk
                => webStorage.device_code = Some(pairing.deviceCode)

\* C17: no step changes the device_name of a row that has an owner: the
\* steps of the client (the requests of registerDevice on each of its
\* paths, of updateDeviceCode and of the heartbeat, served by the table)
\* leave it alone however the owner's pairing write falls between the
\* select of registerDevice and its update.
C17_OwnedRowKeepsName ==
    [][\A d \in devices :
          d.user_id # Null
             => \E e \in devices' : e.id = d.id /\ e.device_name = d.device_name
      ]_vars

\* the requests registerDevice sends
RegisterRequests == {"select", "insert", "update", "update2"}

\* C18: with nobody else touching the row and the storages as they were,
\* a registerDevice after the one that created the row uses the same
\* identifier and leaves the row as it found it (code, name, owner): no
\* request of it adds or changes a row.
C18_SecondRegistrationChangesNothing ==
    [][\A i \in 1..Len(calls) :
          (/\ devices # {}
           /\ calls[i].pc \in RegisterRequests
           /\ Served(i, TRUE))
             => devices' = devices
      ]_vars

\* C19: all calls of getDeviceId return one and the same identifier, the
\* stored one once it is stored, and the one fallback identifier of the run
\* when localStorage is unavailable.
C19_OneDeviceId ==
    /\ Cardinality(ghost.ids) <= 1
    /\ webStorage.device_id # Null => ghost.ids = {webStorage.device_id[1]}

\* the requests of registerDevice that write
RegisterWrites == {"insert", "update", "update2"}

\* no two rows have the same id
KeyUnique == \A d, e \in devices : d.id = e.id => d = e

\* a registerDevice whose write got through has its row
Registered ==
    \A i \in 1..Len(calls) :
       (calls[i].pc \in RegisterWrites /\ calls[i].phase = "served" /\ calls[i].ok)
          => \E d \in devices : d.id = calls[i].id

\* C20: whatever registerDevice calls have run or are running together,
\* the table holds one row for the identifier, and only one; a request of
\* registerDevice creates a row without owner and leaves the owner of an
\* existing row as it is.
C20_OneRowOwnerUntouched ==
    /\ [](KeyUnique /\ Registered)
    /\ [][\A i \in 1..Len(calls), ok \in BOOLEAN :
             (calls[i].pc \in RegisterRequests /\ Served(i, ok))
                => \A e \in devices' :
                      IF \E d \in devices : d.id = e.id
                      THEN \E d \in devices : d.id = e.id /\ d.user_id = e.user_id
                      ELSE e.user_id = Null
        ]_vars

\* C20 witness: the registerDevice of the hook and the one of the pairing
\* component are under way together for one identifier, and the table has
\* its one row, which has an owner.
C20_Witness ==
    /\ \E i, j \in 1..Len(calls) :
          /\ calls[i].op = "hookInit" /\ calls[i].pc \in RegisterWrites
          /\ calls[j].op = "compInit" /\ calls[j].pc \in RegisterWrites
          /\ calls[i].id = calls[j].id
          /\ \E d \in devices : d.id = calls[i].id /\ d.user_id # Null
    /\ Cardinality(devices) = 1

\* ===================================================== display scheduler
\* ------------------------------------------------------------------ bounds
DisplayHorizon == 11000  \* the scheduler is followed for this many ms
MaxPending == 2          \* 300 ms timeouts armed at one time
StrollMs == 1000         \* time passing without any timer being due

\* ------------------------------------------------------- program constants
TransitionMs == 300
DefaultDuration == 10

\* an item whose duration is absent: `currentContent?.duration || 10`
\* takes the default for undefined, null and 0 alike
ItemZ == [id |-> "Z", content_type |-> "image", duration |-> 0]

\* content arrays App can hand to ContentDisplay: the initial [] of
\* useContentSubscription and playlists of one, two and three items
DisplayPlaylists ==
    {<< >>, <<ItemY>>, <<ItemX, ItemY>>, <<ItemZ, ItemY, ItemX>>}

\* ------------------------------------------------------- ContentDisplay
\* const currentContent = content[currentIndex] (undefined: Null)
currentContent(d) ==
    IF d.currentIndex < Len(d.content)
    THEN Some(d.content[d.currentIndex + 1]) ELSE Null

\* the <video> element is rendered for the item on screen
VideoShown(d) ==
    currentContent(d) # Null /\ currentContent(d)[1].content_type = "video"

\* startTimer without the default of 10 s
startTimer_NoDefault(d, t) ==
    [d EXCEPT !.timer = t + (IF currentContent(d) # Null
                             THEN currentContent(d)[1].duration * 1000
                             ELSE 0)]

\* startTimer at time t: the timeout of the item's duration, in ms
startTimer(d, t) ==
    LET cur == currentContent(d)
        duration == IF cur # Null /\ cur[1].duration # 0
                    THEN cur[1].duration * 1000
                    ELSE DefaultDuration * 1000
    IN [d EXCEPT !.timer = t + duration]

\* The timer effect, deps [currentIndex, content, currentContent], runs
\* again at time t: the cleanup of the previous run clears the timeout of
\* timerRef, then the effect returns at once for an empty content or
\* calls startTimer.  The cleanup does not reach the 300 ms timeouts;
\* those that are armed are marked: cleaned.
TimerEffect(d, t) ==
    LET e == [d EXCEPT !.timer = NoTimer, !.since = t,
                       !.pending = [i \in 1..Len(@) |->
                                       [@[i] EXCEPT !.cleaned = TRUE]]]
    IN IF Len(e.content) = 0 THEN e ELSE startTimer(e, t)

\* The element rendered for content p at index i, seen from display d: a
\* <video> whose src is the one on screen keeps its playback state, any
\* other <video> starts to load, other items have no <video>.
Media(d, p, i) ==
    LET new == [d EXCEPT !.content = p, !.currentIndex = i]
    IN IF ~VideoShown(new) THEN FALSE
       ELSE IF VideoShown(d) /\ currentContent(d)[1].id = p[i + 1].id
            THEN d.media ELSE TRUE

\* the body shared by the timeout callback, nextContent (by = 1) and
\* previousContent (by = -1), after their test of content.length:
\* setIsTransitioning(true) and a 300 ms timeout whose closure holds by
\* and content.length
Transition(d, by, t) ==
    [d EXCEPT !.isTransitioning = TRUE,
              !.pending = Append(@, [at |-> t + TransitionMs, by |-> by,
                                     n |-> Len(d.content),
                                     cleaned |-> FALSE])]

\* nextContent at time t
nextContent(d, t) == IF Len(d.content) <= 1 THEN d ELSE Transition(d, 1, t)

\* previousContent at time t
previousContent(d, t) ==
    IF Len(d.content) <= 1 THEN d ELSE Transition(d, 0 - 1, t)

\* deadlines of the timeouts of the scheduler that are armed
DisplayDeadlines ==
    (IF display.timer # NoTimer THEN {display.timer} ELSE {})
        \cup {display.pending[i].at : i \in 1..Len(display.pending)}

Shows(d) ==
    /\ Len(d.pending) <= MaxPending
    /\ display' = d
    /\ UNCHANGED << deviceVars, store, remote, isPaired, effRan, content,
                    localStorage, channels, fetches, notified, lastNotify,
                    burstLen, count, burstRefreshes, liveFetchRan, last >>

\* App renders <ContentDisplay content={p}> for the first time
ContentDisplayMounts(p) ==
    /\ ~display.mounted
    /\ Shows(TimerEffect([DisplayClosed EXCEPT
                             !.mounted = TRUE, !.content = p,
                             !.media = Media(DisplayClosed, p, 0)], now))
    /\ UNCHANGED now

\* App stops rendering ContentDisplay: the cleanup of the timer effect
\* runs; the 300 ms timeouts stay armed, and their state setters do
\* nothing on the instance that is gone
ContentDisplayUnmounts ==
    /\ display.mounted
    /\ Shows(DisplayClosed)
    /\ UNCHANGED now

\* App renders ContentDisplay with a new content array (setContent of
\* useContentSubscription): state is kept, the timer effect runs again
ContentReplaced(p) ==
    /\ display.mounted
    /\ Shows(TimerEffect([display EXCEPT
                             !.content = p,
                             !.media = Media(display, p, display.currentIndex)],
                          now))
    /\ UNCHANGED now

\* the timeout of startTimer fires
DurationTimeout ==
    /\ display.timer # NoTimer
    /\ display.timer <= now
    /\ Shows(nextContent([display EXCEPT !.timer = NoTimer], now))
    /\ UNCHANGED now

\* a 300 ms timeout fires (timeouts of equal delay fire in the order in
\* which they were armed): setCurrentIndex with the length its closure
\* holds, setIsTransitioning(false); the index has changed, so the timer
\* effect runs again
TransitionTimeout ==
    /\ display.pending # << >>
    /\ display.pending[1].at <= now
    /\ LET h == Head(display.pending)
           i == IF h.by = 1 THEN (display.currentIndex + 1) % h.n
                ELSE (display.currentIndex - 1 + h.n) % h.n
           d == [display EXCEPT
                    !.pending = Tail(@), !.currentIndex = i,
                    !.isTransitioning = FALSE,
                    !.media = Media(display, display.content, i)]
       IN Shows(TimerEffect(d, now))
    /\ UNCHANGED now

\* a click on one of the two navigation buttons, which are rendered for an
\* item on screen of a content of two or more and disabled while
\* isTransitioning
NavigationClick(by) ==
    /\ display.mounted
    /\ currentContent(display) # Null
    /\ Len(display.content) > 1
    /\ ~display.isTransitioning
    /\ Shows(IF by = 1 THEN nextContent(display, now)
                       ELSE previousContent(display, now))
    /\ UNCHANGED now

\* onEnded (handleVideoEnded) or onError of the <video> on screen; the
\* element reports one of the two, once, for an item it has loaded
VideoSignal(kind) ==
    /\ display.mounted
    /\ VideoShown(display)
    /\ display.media
    /\ Shows(nextContent([display EXCEPT !.media = FALSE], now))
    /\ UNCHANGED now

\* time passes, up to the earliest deadline of an armed timeout
Elapse(t) ==
    /\ t > now
    /\ t <= StartTime + DisplayHorizon
    /\ \A dl \in DisplayDeadlines : t <= dl
    /\ now' = t
    /\ Shows(display)

ElapseTargets == DisplayDeadlines \cup {now + StrollMs}

\* ------------------------------------------------------ specifications
\* the scheduler before App has rendered it
InitDisplay ==
    /\ ContentIdle
    /\ DeviceIdle
    /\ display = DisplayClosed
    /\ store = StoreEmpty

\* The scheduler with everything that can reach it: App mounts it,
\* replaces its content and unmounts it; its timeouts fire, the buttons
\* are clicked, the <video> reports, time passes.
NextDisplay ==
    \/ \E p \in DisplayPlaylists : ContentDisplayMounts(p)
    \/ ContentDisplayUnmounts
    \/ \E p \in DisplayPlaylists : ContentReplaced(p)
    \/ DurationTimeout
    \/ TransitionTimeout
    \/ \E by \in {1, 0 - 1} : NavigationClick(by)
    \/ \E kind \in {"ended", "error"} : VideoSignal(kind)
    \/ \E t \in ElapseTargets : Elapse(t)

SpecDisplay == InitDisplay /\ [][NextDisplay]_vars

\* The scheduler left alone with the content it is mounted with: nobody
\* clicks, the <video> reports nothing, the content is not replaced.
NextPlaylist ==
    \/ \E p \in DisplayPlaylists : ContentDisplayMounts(p)
    \/ DurationTimeout
    \/ TransitionTimeout
    \/ \E t \in ElapseTargets : Elapse(t)

SpecPlaylist == InitDisplay /\ [][NextPlaylist]_vars

\* The scheduler with the content it is mounted with and a <video> that
\* reports: nobody clicks, the content is not replaced.
NextMedia ==
    \/ \E p \in DisplayPlaylists : ContentDisplayMounts(p)
    \/ DurationTimeout
    \/ TransitionTimeout
    \/ \E kind \in {"ended", "error"} : VideoSignal(kind)
    \/ \E t \in ElapseTargets : Elapse(t)

SpecMedia == InitDisplay /\ [][NextMedia]_vars
\* =================================================================== cache
SecondMs == 1000         \* the instants followed are whole seconds apart

\* the instants of the session at which the cache is used: the start, one
\* second later, and one hour later give or take a second
Instants ==
    {StartTime + a : a \in {0, SecondMs, CacheMaxAgeMs - SecondMs,
                            CacheMaxAgeMs, CacheMaxAgeMs + SecondMs,
                            CacheMaxAgeMs + 2 * SecondMs}}

\* playlists a live result can be
CachePlaylists ==
    {<<ItemX>>, <<ItemY>>, <<ItemX, ItemY>>, <<ItemY, ItemX>>,
     <<ItemZ, ItemY, ItemX>>}

CacheStep(c, ls) ==
    /\ content' = c
    /\ localStorage' = ls
    /\ last' = Step("other", TRUE)
    /\ UNCHANGED << deviceVars, display, store, remote, isPaired, effRan, channels,
                    fetches, notified, lastNotify, burstLen, count,
                    burstRefreshes, liveFetchRan >>

\* a live result p is shown and saved: setContent(p); cacheContent(p)
CacheSave(p) ==
    /\ CacheStep(p, cacheContent(p, now))
    /\ UNCHANGED now

\* an empty live result: the default content is shown, both keys removed
CacheClear ==
    /\ CacheStep(getDefaultContent, removeCache)
    /\ UNCHANGED now

\* a live fetch has failed, the cached playlist is read whatever its age
\* and shown if it has an item, the default content otherwise
CacheLoad ==
    /\ LET cachedContent == getCachedContent(localStorage)
       IN CacheStep(IF Len(cachedContent) > 0 THEN cachedContent
                    ELSE getDefaultContent, localStorage)
    /\ UNCHANGED now

\* time passes to a later instant
CacheElapse(t) ==
    /\ t > now
    /\ now' = t
    /\ CacheStep(content, localStorage)

\* a first run of the page: nothing is cached
InitCache ==
    /\ ContentIdle
    /\ DeviceIdle
    /\ display = DisplayClosed
    /\ store = StoreEmpty

NextCache ==
    \/ \E p \in CachePlaylists : CacheSave(p)
    \/ CacheClear
    \/ CacheLoad
    \/ \E t \in Instants : CacheElapse(t)

SpecCache == InitCache /\ [][NextCache]_vars

\* ================================================ the pairing screen
\* The pairing screen of a device nobody claims, on a network on which any
\* request may fail: initialization, the 5 s poll, the 600 s rotation and
\* the events of the device's own updates.
NextScreen ==
    \/ \E r \in Draws : AppMount(r)
    \/ \E i \in 1..Len(calls), ok \in BOOLEAN : Served(i, ok)
    \/ \E i \in 1..Len(calls), r \in Draws : Resume(i, r)
    \/ \E r \in Draws : pairingInterval(r)
    \/ \E r \in Draws : codeRefreshInterval(r)
    \/ \E r \in Draws : PushDelivered(r)

\* the storages work and the hook subscribes as well
InitScreen ==
    /\ InitPairing
    /\ variant = "realtime"

SpecScreen == InitScreen /\ [][NextScreen]_vars

\* ------------------------------------------ the validation of the code
\* a device of somebody else in the table
OtherDevice(code) == NewDevice("other-device", code)

\* A first run of the page while the table holds the row of another
\* device, whose code is one of those this device can draw; sessionStorage
\* may be unavailable.
InitHeal ==
    /\ ContentIdle
    /\ display = DisplayClosed
    /\ store = StoreEmpty
    /\ variant = "realtime"
    /\ \E code \in Codes : devices = {OtherDevice(code)}
    /\ webStorage \in [localOk : {TRUE}, sessionOk : BOOLEAN,
                       device_id : {Null}, device_code : {Null}]
    /\ hook = HookUnmounted
    /\ pairing = PairingClosed
    /\ calls = << >>
    /\ pushes = << >>
    /\ ghost = [ids |-> {}, gen |-> 0, lost |-> 0]

\* the two initializations and the events of their updates; any request
\* may fail
NextHeal ==
    \/ \E r \in Draws : AppMount(r)
    \/ \E i \in 1..Len(calls), ok \in BOOLEAN : Served(i, ok)
    \/ \E i \in 1..Len(calls), r \in Draws : Resume(i, r)
    \/ \E r \in Draws : PushDelivered(r)

SpecHeal == InitHeal /\ [][NextHeal]_vars

\* ======================================== the query of getDeviceContent
MaxBindings == 2         \* rows of device_content followed at a time

\* the identifier getDeviceId returns on this device, and another device's
ThisDevice == "this-device"
Devices == {ThisDevice, "other-device"}

\* tables content can be: of each of two items no row, an active row or
\* an inactive one
ContentRow(id, a) ==
    [id |-> id, content_type |-> "text", duration |-> 2, is_active |-> a]

ContentTables ==
    {x \cup y : x \in {{}, {ContentRow("X", TRUE)}, {ContentRow("X", FALSE)}},
                y \in {{}, {ContentRow("Y", TRUE)}, {ContentRow("Y", FALSE)}}}

\* rows device_content can hold, and the tables of at most MaxBindings
Bindings ==
    [device_id : Devices, content_id : {"X", "Y"}, display_order : {1, 2},
     is_active : BOOLEAN]

BindingTables == {t \in SUBSET Bindings : Cardinality(t) <= MaxBindings}

\* .eq('device_id', deviceId).eq('is_active', true)
Selected(s, deviceId) ==
    {b \in s.device_content : b.device_id = deviceId /\ b.is_active}

\* .order('display_order', { ascending: true }): the selected rows in
\* some order in which display_order never decreases
Ordered(rows) ==
    {f \in [1..Cardinality(rows) -> rows] :
        /\ \A j, k \in 1..Cardinality(rows) : j # k => f[j] # f[k]
        /\ \A j, k \in 1..Cardinality(rows) :
              j < k => f[j].display_order <= f[k].display_order}

\* content (*): the row of content that the row b refers to, or null
Embedded(s, b) ==
    IF \E c \in s.content : c.id = b.content_id
    THEN Some(CHOOSE c \in s.content : c.id = b.content_id)
    ELSE Null

\* data?.map(item => item.content).filter(Boolean)
Processed(s, data) ==
    LET mapped == [k \in 1..Len(data) |-> Embedded(s, data[k])]
        kept == SelectSeq(mapped, LAMBDA x : x # Null)
    IN [k \in 1..Len(kept) |-> kept[k][1]]

\* the lists the query can return for the device
DeviceContent(s, deviceId) ==
    {Processed(s, data) : data \in Ordered(Selected(s, deviceId))}

\* getDeviceContent is called: its request is on its way
QueryStart ==
    /\ FetchRoom(1)
    /\ LoadContentStart
    /\ last' = Step("other", TRUE)
    /\ UNCHANGED << now, remote, isPaired, effRan, content,
                    localStorage, channels, notified, lastNotify, burstLen,
                    count, burstRefreshes, liveFetchRan >>
    /\ UNCHANGED << deviceVars, display, store >>

\* the repository executes the query of the i-th request
StoreServed(i) ==
    /\ i \in 1..Len(fetches)
    /\ fetches[i].phase = "sent"
    /\ \E list \in DeviceContent(store, ThisDevice) :
          fetches' = [fetches EXCEPT ![i] =
             [@ EXCEPT !.phase = "served", !.ok = TRUE, !.data = list]]
    /\ last' = Step("other", TRUE)
    /\ UNCHANGED << now, remote, isPaired, effRan, content,
                    localStorage, channels, notified, lastNotify, burstLen,
                    count, burstRefreshes, liveFetchRan >>
    /\ UNCHANGED << deviceVars, display, store >>

\* the repository holds any of the tables; the page calls getDeviceContent
InitQuery ==
    /\ ContentIdle
    /\ DeviceIdle
    /\ display = DisplayClosed
    /\ store \in [device_content : BindingTables, content : ContentTables]

NextQuery ==
    \/ QueryStart
    \/ \E i \in 1..Len(fetches) : StoreServed(i)
    \/ \E i \in 1..Len(fetches) : LoadContentDone(i)

SpecQuery == InitQuery /\ [][NextQuery]_vars

\* ============================================ AppContent without network
AppHorizon == 40000      \* ms of display followed without network

\* useContentSubscription(isPaired) in AppContent: its effect runs first
\* for the useState(false) of the hook's isPaired, then for each change
AppEffect ==
    /\ hook.mounted
    /\ Effect(IF effRan THEN hook.isPaired ELSE FALSE)

\* AppContent returns <ContentDisplay content={content}> once the hook is
\* neither loading nor unpaired
AppShowsContent ==
    /\ ContentShown
    /\ effRan
    /\ ContentDisplayMounts(content)

\* time passes up to the earliest deadline of the scheduler
Wait(t) ==
    /\ t > now
    /\ t <= StartTime + AppHorizon
    /\ \A dl \in DisplayDeadlines : t <= dl
    /\ now' = t
    /\ Shows(display)

\* The page is loaded without network on a device nobody has claimed, or
\* the network is lost on a device that shows the content of its owner.
InitApp ==
    /\ variant = "polling"
    /\ InitPairing \/ InitUnlinked

\* no request gets through: the two hooks, the view AppContent selects and
\* the scheduler
NextApp ==
    \/ \E r \in Draws : AppMount(r)
    \/ \E i \in 1..Len(calls) : Served(i, FALSE)
    \/ \E i \in 1..Len(calls), r \in Draws : Resume(i, r)
    \/ AppEffect
    \/ \E i \in 1..Len(fetches) : FetchServed(i, FALSE)
    \/ \E i \in 1..Len(fetches) : LoadContentDone(i)
    \/ AppShowsContent
    \/ DurationTimeout
    \/ TransitionTimeout
    \/ \E t \in DisplayDeadlines : Wait(t)

SpecApp == InitApp /\ [][NextApp]_vars

\* ===================================== a change that is never notified
PollMs == 30000          \* "30-second backup polling", statusInterval
MaxPolls == 2            \* polling intervals followed

\* A paired device in its settled state: the row has an owner, the hook
\* of the polling variant is paired, the effect of useContentSubscription
\* has run for it, its channel is subscribed, and the playlist of the
\* store is on screen and in the cache.
InitPoll ==
    /\ variant = "polling"
    /\ \E id \in Uuids, code \in Codes, o \in Owners, name \in OwnerNames :
          /\ devices = {[NewDevice(id, code) EXCEPT !.user_id = Some(o),
                                                    !.device_name = name]}
          /\ webStorage = [StorageEmpty EXCEPT !.device_id = Some(id),
                                               !.device_code = Some(code)]
          /\ hook = [mounted |-> TRUE, isPaired |-> TRUE,
                     device |-> Some([user_id |-> Some(o)]),
                     loading |-> FALSE, sub |-> Null]
    /\ pairing = PairingClosed
    /\ calls = << >>
    /\ pushes = << >>
    /\ ghost = [ids |-> {}, gen |-> 0, lost |-> 0]
    /\ display = DisplayClosed
    /\ store = StoreEmpty
    /\ now = StartTime
    /\ remote = <<ItemX>>
    /\ isPaired = TRUE
    /\ effRan = TRUE
    /\ content = <<ItemX>>
    /\ localStorage = cacheContent(<<ItemX>>, StartTime)
    /\ channels = <<[NewChannel(TRUE) EXCEPT !.status = "SUBSCRIBED"]>>
    /\ fetches = << >>
    /\ notified = TRUE
    /\ lastNotify = NoTimer
    /\ burstLen = 0
    /\ count = [notify |-> 0, errors |-> 0, pairings |-> 0]
    /\ burstRefreshes = 0
    /\ liveFetchRan = TRUE
    /\ last = Step("other", TRUE)

\* a polling interval passes
PollWait ==
    /\ now < StartTime + MaxPolls * PollMs
    /\ now' = now + PollMs
    /\ last' = Step("other", TRUE)
    /\ UNCHANGED << remote, isPaired, effRan, content,
                    localStorage, channels, fetches, notified, lastNotify,
                    burstLen, count, burstRefreshes, liveFetchRan >>
    /\ UNCHANGED << deviceVars, display, store >>

\* the status poll of useDeviceStatus, from its interval to its end
StatusPoll ==
    \/ \E r \in Draws : statusInterval(r)
    \/ \E i \in 1..Len(calls) : Served(i, TRUE)
    \/ \E i \in 1..Len(calls), r \in Draws : Resume(i, r)

\* a request of getDeviceContent, from the store's answer to its end
Refresh ==
    \/ \E i \in 1..Len(fetches) : FetchServed(i, TRUE)
    \/ \E i \in 1..Len(fetches) : LoadContentDone(i)

\* The owner changes the playlist and no event of the change reaches the
\* device; the network works, the status poll runs, time passes, and
\* somebody may press Ctrl+R.
NextPoll ==
    \/ \E p \in RemotePlaylists : ServerChange(p)
    \/ ManualRefresh
    \/ \E i \in 1..Len(fetches) : FetchServed(i, TRUE)
    \/ \E i \in 1..Len(fetches) : LoadContentDone(i)
    \/ \E r \in Draws : statusInterval(r)
    \/ \E i \in 1..Len(calls) : Served(i, TRUE)
    \/ \E i \in 1..Len(calls), r \in Draws : Resume(i, r)
    \/ PollWait

\* every timer fires and every request is answered and completes; nobody
\* has to press a key
SpecPoll ==
    /\ InitPoll
    /\ [][NextPoll]_vars
    /\ WF_vars(StatusPoll)
    /\ WF_vars(Refresh)
    /\ WF_vars(PollWait)

\* ===================================================== scheduler claims
\* C21: in every state of the scheduler with a non-empty playlist,
\* 0 <= currentIndex < len(playlist), also after the playlist was replaced
\* by a shorter one or replaced while a 300 ms transition was pending.
C21_IndexInRange ==
    (display.mounted /\ Len(display.content) > 0)
        => (0 <= display.currentIndex
               /\ display.currentIndex < Len(display.content))

\* C22: whenever the mounted scheduler is handed a new playlist,
\* currentIndex is 0 afterwards, whatever it was before.
C22_NewPlaylistResetsIndex ==
    [][(display.mounted /\ display'.mounted
           /\ display'.content # display.content)
          => display'.currentIndex = 0]_vars

\* C23: a scheduler that shows the only item of a one-item playlist
\* (currentIndex 0, not transitioning) stays so: no timer, video-ended or
\* video-error signal changes currentIndex or sets transitioning while the
\* playlist stays what it is.
C23_SingleItemStays ==
    [][(/\ display.mounted /\ display'.mounted
        /\ Len(display.content) = 1 /\ display'.content = display.content
        /\ display.currentIndex = 0 /\ ~display.isTransitioning)
          => (display'.currentIndex = 0 /\ ~display'.isTransitioning)]_vars

\* the time in ms the item on screen is to be shown
ShowMs(d) ==
    IF currentContent(d)[1].duration = 0 THEN DefaultDuration * 1000
    ELSE currentContent(d)[1].duration * 1000

\* C24: with a fixed playlist of n >= 2 items and no manual or media
\* signal, the items are shown in the order 0, 1, ..., n-1, 0, ...: the
\* transition away from item i starts when i has been shown for its own
\* duration (10 s when it has none), the index then becomes (i+1) mod n,
\* 300 ms later, and it changes in no other way.
C24_RoundRobinByDuration ==
    [][(display.mounted /\ Len(display.content) >= 2) =>
          /\ (~display.isTransitioning /\ display'.isTransitioning)
                => now = display.since + ShowMs(display)
          /\ display'.currentIndex # display.currentIndex
                => /\ display'.currentIndex
                         = (display.currentIndex + 1) % Len(display.content)
                   /\ display.isTransitioning
                   /\ now = display.since + ShowMs(display) + TransitionMs
          /\ now' <= display.since + ShowMs(display) + TransitionMs]_vars

\* the playlist [X, Y] has been shown once and X is on screen again
C24_Witness ==
    /\ display.mounted
    /\ display.content = <<ItemX, ItemY>>
    /\ display.currentIndex = 0
    /\ display.since - StartTime >= 2 * TransitionMs + 5000

\* C25: a video item of a playlist of two or more is advanced once per
\* showing: of the duration timer and the ended/error signal, the one that
\* comes second starts no transition, so at most one 300 ms timeout is
\* armed while the video is on screen and the index moves by one.
C25_OneAdvancePerShowing ==
    (display.mounted /\ VideoShown(display) /\ Len(display.content) >= 2)
        => Len(display.pending) <= 1

\* C26: transitions never overlap: at any time at most one 300 ms
\* timeout is armed, so no click, duration timer or media signal starts
\* a transition while isTransitioning is true.
C26_TransitionsNeverOverlap ==
    [][(display.mounted /\ display.isTransitioning)
          => Len(display'.pending) <= Len(display.pending)]_vars

\* C27: for a cache saved at time T, isCacheValid() at time t is true
\* exactly when t - T < 3 600 000 ms (true at T + 3599 s, false at
\* T + 3600 s and at T + 3601 s), and it is false when no save time is
\* stored.
C27_ValidWithinTheHour ==
    /\ \A p \in CachePlaylists, T \in Instants :
          localStorage = cacheContent(p, T)
             => (isCacheValid(localStorage, now) <=> now - T < 3600000)
    /\ localStorage.cache_timestamp = Null => ~isCacheValid(localStorage, now)

\* a cache that is exactly one hour old is no longer valid
C27_Witness ==
    /\ localStorage = cacheContent(<<ItemX, ItemY>>, StartTime)
    /\ now = StartTime + 3600000
    /\ ~isCacheValid(localStorage, now)

\* C28: the cache is one slot and the last write wins: right after a save
\* of P, load() returns P and the stored time is the time of that save,
\* whatever was saved before; with nothing stored load() returns the
\* empty playlist.
C28_LastWriteWins ==
    [][/\ (localStorage' # localStorage /\ localStorage' # removeCache)
             => /\ getCachedContent(localStorage') = content'
                /\ parseInt(localStorage'.cache_timestamp[1]) = now
       /\ localStorage' = removeCache
             => getCachedContent(localStorage') = << >>]_vars

\* a playlist saved one second into the session, over whatever the slot
\* held, is the one shown and the one a later load returns
C28_Witness ==
    /\ localStorage = cacheContent(<<ItemX, ItemY>>, StartTime + SecondMs)
    /\ content = <<ItemX, ItemY>>
    /\ getCachedContent(localStorage) = <<ItemX, ItemY>>
    /\ now > StartTime + SecondMs

\* C29: after the content listener was torn down (unsubscribe in the
\* cleanup of the hook's effect) none of its timers does anything: a
\* debounce timer of a closed channel starts no fetch and a reconnect
\* timer of a closed channel creates no subscription.
C29_TornDownListenerIsSilent ==
    [][/\ \A c \in ArmedDebounce :
             (/\ channels' = Sweep([channels EXCEPT ![c].debounceTimer = NoTimer])
              /\ fetches' = Append(fetches, NewFetch("sub")))
                => channels[c].status # "CLOSED"
       /\ \A c \in ArmedReconnect :
             channels' = Append(Sweep([channels EXCEPT
                                          ![c].reconnectTimer = NoTimer]),
                                NewChannel(FALSE))
                => channels[c].status # "CLOSED"]_vars

\* C30: once the timer effect of the scheduler has been cleaned up
\* (unmount, index change, playlist change) no timeout armed before the
\* cleanup changes currentIndex or isTransitioning: a 300 ms timeout that
\* fires in a mounted scheduler was armed after the last cleanup.
C30_NoTimeoutSurvivesCleanup ==
    [][(/\ display.mounted /\ display'.mounted
        /\ Len(display'.pending) < Len(display.pending))
          => ~display.pending[1].cleaned]_vars

\* C31: once the effect of useContentSubscription has produced its first
\* resolution, the current playlist is never empty: the unpaired branch,
\* every outcome of a fetch and every subscription callback leave the
\* remote, the cached or the default playlist, none of them empty.
C31_PlaylistNeverEmpty == effRan => Len(content) > 0

\* C31 witness: the query of a notification-triggered fetch failed with
\* nothing in the cache, and the default content is the current playlist
C31_Witness ==
    /\ isPaired
    /\ last = [op |-> "SubscriptionCallback", ok |-> FALSE]
    /\ Cached = << >>
    /\ content = getDefaultContent

\* C32: whatever step of the initialization of the pairing screen fails,
\* once initializeDevice has returned the screen is no longer loading and
\* shows a non-empty six-digit code and QR data, and the pairing
\* subscription, the 5 s poll and the 600 s rotation are still there: each
\* timer starts its handler whenever there is room for one more function.
C32_InitEndsWithCodeOnScreen ==
    (PairingShown /\ ~Busy("compInit"))
       => /\ ~pairing.loading
          /\ pairing.deviceCode # ""
          /\ pairing.deviceCode \in Codes \cup {fallbackCode}
          /\ pairing.qrData # Null
          /\ pairing.sub # Null
          /\ (Room /\ ~Busy("poll"))
                => ENABLED (\E r \in Draws : pairingInterval(r))
          /\ (Room /\ ~Busy("rotate"))
                => ENABLED (\E r \in Draws : codeRefreshInterval(r))

\* C32 witness: no request has got through, the screen shows the
\* placeholders of the catch block, and a poll started after that is
\* under way
C32_Witness ==
    /\ PairingShown
    /\ ~Busy("compInit")
    /\ devices = {}
    /\ pairing.deviceCode = fallbackCode
    /\ pairing.qrData = Some(fallbackQr)
    /\ Busy("poll")

\* C33: on an unpaired device without network the screen shows the three
\* default items in their built-in order and cycles through them, 12 s,
\* 10 s and 15 s each: the playlist is the default content, ContentDisplay
\* is on screen with it or about to be, and the duration timer of the item
\* on screen is armed for that item's duration.
C33_UnpairedShowsDefaultItems ==
    (hook.mounted /\ ~hook.loading /\ ~hook.isPaired /\ effRan)
       => /\ content = getDefaultContent
          /\ IF display.mounted
             THEN /\ display.content = getDefaultContent
                  /\ display.timer # NoTimer
                        => display.timer = display.since + ShowMs(display)
             ELSE ENABLED AppShowsContent

\* C34: in every state where QR data is on the pairing screen, its type is
\* "pi_board_device", its device_code is the code shown next to it and its
\* device_id is an identifier of this device (one getDeviceId has
\* returned, under which the device registers): after initialization,
\* after a rotation, after a manual refresh and on the failure path.
C34_PayloadMatchesScreen ==
    (PairingShown /\ pairing.qrData # Null)
       => /\ pairing.qrData[1].type = "pi_board_device"
          /\ pairing.qrData[1].device_code = pairing.deviceCode
          /\ pairing.qrData[1].device_id \in ghost.ids

\* the rows of this device's active bindings whose item is active
ActiveSelected(s, deviceId) ==
    {b \in Selected(s, deviceId) :
        \E c \in s.content : c.id = b.content_id /\ c.is_active}

\* C35: for every set of bindings and content items, getDeviceContent
\* returns exactly the items that are active themselves and are reached
\* through an active binding of this device, in ascending order of the
\* bindings' display_order; inactive items and items bound only through
\* inactive bindings or to other devices never appear.
C35_OnlyActiveItemsInOrder ==
    [][\A i \in 1..Len(fetches) :
          StoreServed(i)
             => fetches'[i].data \in
                   {Processed(store, data) :
                       data \in Ordered(ActiveSelected(store, ThisDevice))}
      ]_vars

\* C36: for a paired device, when the playlist of the store has changed
\* and no notification of the change is delivered, the playlist on screen
\* still becomes the store's playlist (by backup polling, within one
\* polling interval).
C36_PollingConverges ==
    (isPaired /\ ~notified /\ content # ServerTruth)
       ~> (content = ServerTruth)

\* C37: every change of currentIndex happens in a step that starts with
\* isTransitioning true and ends with it false, and moves the index by
\* exactly +1 or -1 modulo the length of the playlist that is current at
\* the time of the change; the index never changes while isTransitioning
\* is false.
C37_IndexMovesOnlyInTransition ==
    [][(/\ display.mounted /\ display'.mounted
        /\ display'.currentIndex # display.currentIndex)
          => LET n == Len(display.content)
                 i == display.currentIndex
             IN /\ display.isTransitioning
                /\ ~display'.isTransitioning
                /\ n > 0
                /\ display'.currentIndex \in {(i + 1) % n, (i - 1 + n) % n}
      ]_vars

\* C38: in every state where the hook's isPaired is true, the device
\* record the hook holds is not null and has an owner: every transition to
\* paired (startup check, poll, event, onPaired) carries the row, also when
\* the getDeviceInfo that follows a positive status check fails.
C38_PairedHoldsOwnedRecord ==
    (hook.mounted /\ hook.isPaired)
       => (hook.device # Null /\ hook.device[1].user_id # Null)

\* C39: in the initialization of the pairing screen, after registerDevice
\* has returned, an update with the local code is sent if and only if the
\* row of this device does not carry that code (for a validation that got
\* through), and whenever the initialization puts the code on screen the
\* row of this device carries the code shown, also when the row of
\* another device carries the same code.
C39_ValidationHealsTheRow ==
    [][\A i \in 1..Len(calls), r \in Draws :
          (/\ calls[i].op = "compInit" /\ calls[i].live
           /\ calls[i].phase = "served"
           /\ calls[i].pc \in {"validate", "setCode"}
           /\ Resume(i, r))
             => /\ (calls[i].pc = "validate" /\ calls[i].ok)
                      => ((\E j \in 1..Len(calls') :
                              /\ calls'[j].op = "compInit"
                              /\ calls'[j].pc = "setCode")
                            <=> ~\E d \in devices :
                                    /\ d.id = calls[i].id
                                    /\ d.device_code = calls[i].shown)
                /\ pairing'.deviceCode = calls[i].shown
                      => \A d \in devices' :
                            d.id \in ghost.ids'
                               => d.device_code = pairing'.deviceCode
      ]_vars

\* C40: a live fetch that fails with a transport error leaves the cache slot
\* as it was, on the initial load path and on the notification path: the
\* cached playlist and its save time after the completion are those before.
C40_FailedFetchKeepsCache ==
    [][\A i \in InFlight :
          (Completion(i) /\ ~fetches[i].ok)
             => localStorage' = localStorage]_vars

====
